---------------------------- MODULE Spec2Model ----------------------------
(***************************************************************************)
(* A model of the single-pass compiler under src/lib: the scanner          *)
(* (lib/scanner.py), the identifier table (lib/datatypes.py), the          *)
(* recursive-descent parser (lib/parser.py) and the counters and buffer of *)
(* the code generator (lib/codegenerator.py).                              *)
(*                                                                         *)
(* Python values are modelled as follows: a str is a TLA+ string, or a     *)
(* sequence of one-character strings where the code indexes it; None is    *)
(* the string "None"; an exception in flight is the field exc of the       *)
(* threaded state record, holding the exception's class name ("" = none);  *)
(* once exc is set, the statements after the raise are skipped.            *)
(***************************************************************************)
EXTENDS Integers, Sequences, FiniteSets, TLC

VARIABLES
    \* ---- Scanner (lib/scanner.py) ----
    src,          \* Scanner._src: the lines of the file, line terminators kept
    line_pos,     \* Scanner._line_pos (0-based)
    char_pos,     \* Scanner._char_pos (0-based)
    tok,          \* the Token the last next_token() call returned
    scan_exc,     \* the exception the last next_token() call raised ("" = none)
    warnings,     \* number of _scan_warning messages printed so far
    \* ---- IdentifierTable (lib/datatypes.py) ----
    ids,          \* the table itself (a list of dicts): scope 0 is ids[1]
    owner_ids,    \* IdentifierTable._owner_ids
    t_op,         \* the last table operation called, with its arguments
    t_ret,        \* the value it returned
    t_exc,        \* the exception it raised ("" = none)
    \* ---- Parser (lib/parser.py) and CodeGenerator (lib/codegenerator.py) ----
    toks,         \* the tokens of the attached source, in order, eof excluded
    pos,          \* how many of them next_token() has handed out
    previous,     \* Parser._previous
    current,      \* Parser._current
    future,       \* Parser._future
    has_errors,   \* Parser._has_errors
    errors,       \* the kinds of the 'Error' diagnostics printed, in order
    reg,          \* CodeGenerator._reg
    label_id,     \* CodeGenerator._label_id
    unique_id,    \* CodeGenerator._unique_id
    local_ptr,    \* CodeGenerator._local_ptr
    param_ptr,    \* CodeGenerator._param_ptr
    code,         \* CodeGenerator._generated_code, as a list of lines
    default_params,    \* the default list object of _parse_parameter_list(params=[])
    default_out_names, \* the default list object of _parse_argument_list(out_names=[])
    ctl,          \* the active parse methods that hold a loop: a stack of frames
    phase,        \* where Parser.parse is: "new", "body", "footer", "done"
    parse_ret,    \* what parse returned: "True", "False", None while it runs
    parse_exc,    \* the exception that left parse ("" = none)
    dest_file,    \* the destination file: whether it exists, and its text
    compiled      \* what the Parser objects this process made before have
                  \* compiled: the source, the errors recorded, the file

scanvars == <<src, line_pos, char_pos, tok, scan_exc, warnings>>
tablevars == <<ids, owner_ids>>
tableopvars == <<t_op, t_ret, t_exc>>
genvars == <<reg, label_id, unique_id, local_ptr, param_ptr, code>>
parservars == <<toks, pos, previous, current, future, has_errors, errors, genvars,
                default_params, default_out_names, ctl, phase, parse_ret,
                parse_exc, dest_file, compiled>>
vars == <<scanvars, tablevars, tableopvars, parservars>>

None == "None"
NoExc == ""

(***************************************************************************)
(* Bounds of the scanner model.                                            *)
(***************************************************************************)
\* Largest number of characters (line terminators included) of a source file.
MaxSrcLen == 4

\* The characters source files are drawn from: a letter, a digit, a blank,
\* the line terminator, the quote, two symbol characters and a character
\* that is in no token class.
Chars == {"a", "1", " ", "\n", "\"", "/", "=", "#"}

RECURSIVE SeqsUpTo(_, _)
SeqsUpTo(S, n) ==
    IF n = 0 THEN {<<>>}
    ELSE LET shorter == SeqsUpTo(S, n - 1)
         IN  shorter \cup {Append(q, c) : q \in {r \in shorter : Len(r) = n - 1}, c \in S}

(***************************************************************************)
(* Character classes and string helpers (Python str methods).              *)
(***************************************************************************)
Digits == {"0", "1", "2", "3", "4", "5", "6", "7", "8", "9"}
Alphas == {"a", "b", "c", "d", "e", "f", "g", "h", "i", "j", "k", "l", "m",
           "n", "o", "p", "q", "r", "s", "t", "u", "v", "w", "x", "y", "z",
           "A", "B", "C", "D", "E", "F", "G", "H", "I", "J", "K", "L", "M",
           "N", "O", "P", "Q", "R", "S", "T", "U", "V", "W", "X", "Y", "Z"}
IsDigit(c) == c \in Digits
IsAlpha(c) == c \in Alphas
IsAlnum(c) == IsDigit(c) \/ IsAlpha(c)
IsSpace(c) == c \in {" ", "\t", "\n"}

\* ''.join(chars)
RECURSIVE Join(_)
Join(cs) == IF cs = <<>> THEN "" ELSE Head(cs) \o Join(Tail(cs))

\* line[a:b] for 0 <= a, with Python's clamping of the bounds
Slice(line, a, b) ==
    LET hi == IF b > Len(line) THEN Len(line) ELSE b
    IN  IF a >= hi THEN <<>> ELSE SubSeq(line, a + 1, hi)

\* line.find(c, start): 0-based index of the first c at or after start, -1 if none
FindFrom(line, c, start) ==
    LET hits == {i \in (start + 1)..Len(line) : line[i] = c}
    IN  IF hits = {} THEN -1
        ELSE (CHOOSE i \in hits : \A j \in hits : i <= j) - 1

\* line.strip() = '' : every character is white space
StripIsEmpty(line) == \A i \in 1..Len(line) : IsSpace(line[i])

\* value.replace(c, ' ', 1): the first occurrence of c becomes a blank
ReplaceFirst(cs, c) ==
    LET i == FindFrom(cs, c, 0)
    IN  IF i = -1 THEN cs ELSE [cs EXCEPT ![i + 1] = " "]

\* value.replace('_', '')
RECURSIVE RemoveUnderscores(_)
RemoveUnderscores(cs) ==
    IF cs = <<>> THEN <<>>
    ELSE IF Head(cs) = "_" THEN RemoveUnderscores(Tail(cs))
         ELSE <<Head(cs)>> \o RemoveUnderscores(Tail(cs))

\* str.splitlines(keepends=True) on the characters of the file
RECURSIVE SplitLines(_, _)
SplitLines(text, cur) ==
    IF text = <<>> THEN (IF cur = <<>> THEN <<>> ELSE <<cur>>)
    ELSE IF Head(text) = "\n"
         THEN <<Append(cur, "\n")>> \o SplitLines(Tail(text), <<>>)
         ELSE SplitLines(Tail(text), Append(cur, Head(text)))

(***************************************************************************)
(* Scanner                                                                 *)
(***************************************************************************)
keywords == {"string", "integer", "bool", "float", "global", "is", "in", "out",
             "if", "then", "else", "for", "and", "or", "not", "program",
             "procedure", "begin", "return", "end", "true", "false"}

symbols == {":", ";", ",", "+", "-", "*", "/", "(", ")", "<", "<=", ">", ">=",
            "!", "!=", "=", "==", ":=", "[", "]", "&", "|"}

Token(type, value, line) == [type |-> type, value |-> value, line |-> line]
NoToken == Token("none", None, 0)

\* The scanner's fields as one record, threaded through the methods; ret is
\* the value a method returns, kind the token type _expect_* returns.
ScanState == [src |-> src, line_pos |-> line_pos, char_pos |-> char_pos,
              warnings |-> warnings, exc |-> NoExc, ret |-> None, kind |-> None]

Raise(s, e) == [s EXCEPT !.exc = e]
Ok(s) == s.exc = NoExc

(***************************************************************************)
(* Sequencing.  A method body is a sequence of calls, each working on the  *)
(* fields the one before left; an exception raised by a call ends the      *)
(* sequence and is the result.                                             *)
(***************************************************************************)
\* r, then K of it, unless r raised
Bind(r, K(_)) == IF Ok(r) THEN K(r) ELSE r
\* v under a name
With(v, K(_)) == K(v)

\* self._src[self._line_pos][self._char_pos] is defined
CharInRange(s) ==
    /\ s.line_pos < Len(s.src)
    /\ s.char_pos < Len(s.src[s.line_pos + 1])
CharAt(s) == s.src[s.line_pos + 1][s.char_pos + 1]

\* Scanner._next_line
NextLine(s) ==
    [s EXCEPT !.line_pos = s.line_pos + 1, !.char_pos = 0,
              !.ret = (s.line_pos + 1 # Len(s.src))]

\* Scanner._next_word
RECURSIVE NextWord(_)
NextWord(s) ==
    IF ~CharInRange(s) THEN Raise(s, "IndexError")
    ELSE LET char == CharAt(s) IN
         IF char = "\n"
         THEN LET n == NextLine(s) IN
              IF ~n.ret THEN [n EXCEPT !.ret = None] ELSE NextWord(n)
         ELSE IF char \in {" ", "\t"}
         THEN NextWord([s EXCEPT !.char_pos = s.char_pos + 1])
         ELSE [s EXCEPT !.char_pos = s.char_pos + 1, !.ret = char]

\* Scanner._next_char(peek=True): ret is the character, None at a line ending
PeekChar(s) ==
    IF ~CharInRange(s) THEN Raise(s, "IndexError")
    ELSE [s EXCEPT !.ret = IF CharAt(s) = "\n" THEN None ELSE CharAt(s)]

\* Scanner._scan_warning(msg, hl) with hl # -1 (every caller passes a column)
ScanWarning(s) ==
    IF s.line_pos >= Len(s.src) THEN Raise(s, "IndexError")
    ELSE LET whole == s.src[s.line_pos + 1]
             line  == Slice(whole, 0, Len(whole) - 1)
         IN  IF StripIsEmpty(line)
             THEN Raise(s, "IndexError")     \* line.strip()[0] of ''
             ELSE [s EXCEPT !.warnings = s.warnings + 1]

\* The loop of _expect_string over enumerate(value): i is the 0-based index
\* into the value as first sliced (orig); value is the current, edited text.
RECURSIVE StringCharLoop(_, _, _, _)
StringCharLoop(s, orig, value, i) ==
    IF ~Ok(s) \/ i >= Len(orig) THEN [s EXCEPT !.ret = value]
    ELSE LET char == orig[i + 1] IN
         IF ~IsAlnum(char) /\ char \notin {" ", "_", ",", ";", ":", ".", "'"}
         THEN StringCharLoop(ScanWarning(s), orig, ReplaceFirst(value, char), i + 1)
         ELSE StringCharLoop(s, orig, value, i + 1)

\* Scanner._expect_string
ExpectString(s) ==
    LET line     == s.src[s.line_pos + 1]
        found    == FindFrom(line, "\"", s.char_pos)
        hanging  == found = -1
        str_end  == IF hanging THEN Len(line) - 1 ELSE found
        s1       == IF hanging THEN ScanWarning(s) ELSE s
        value    == Slice(line, s.char_pos, str_end)
        s2       == StringCharLoop(s1, value, value, 0)
    IN  IF ~Ok(s2) THEN s2
        ELSE [s2 EXCEPT !.char_pos = s.char_pos + Len(s2.ret)
                                       + (IF hanging THEN 0 ELSE 1),
                        !.ret = Join(s2.ret), !.kind = "string"]

\* Scanner._expect_number: the loop, value as a character sequence
RECURSIVE NumberLoop(_, _, _)
NumberLoop(s, value, is_float) ==
    LET p == PeekChar(s) IN
    IF ~Ok(p) THEN p
    ELSE IF p.ret = None THEN [s EXCEPT !.ret = value, !.kind = is_float]
    ELSE IF p.ret = "." /\ ~is_float
         THEN NumberLoop([s EXCEPT !.char_pos = s.char_pos + 1],
                         Append(value, p.ret), TRUE)
    ELSE IF ~IsDigit(p.ret) /\ p.ret # "_"
         THEN [s EXCEPT !.ret = value, !.kind = is_float]
    ELSE NumberLoop([s EXCEPT !.char_pos = s.char_pos + 1],
                    Append(value, p.ret), is_float)

ExpectNumber(s, char) ==
    LET l == NumberLoop(s, <<char>>, FALSE) IN
    IF ~Ok(l) THEN l
    ELSE LET value    == RemoveUnderscores(l.ret)
             is_float == l.kind
             padded   == IF is_float /\ value[Len(value)] = "."
                         THEN Append(value, "0") ELSE value
         IN  [l EXCEPT !.ret = Join(padded),
                       !.kind = IF is_float THEN "float" ELSE "integer"]

\* Scanner._expect_identifier
RECURSIVE IdentifierLoop(_, _)
IdentifierLoop(s, value) ==
    LET p == PeekChar(s) IN
    IF ~Ok(p) THEN p
    ELSE IF p.ret = None THEN [s EXCEPT !.ret = value]
    ELSE IF ~IsAlnum(p.ret) /\ p.ret # "_" THEN [s EXCEPT !.ret = value]
    ELSE IdentifierLoop([s EXCEPT !.char_pos = s.char_pos + 1], value \o p.ret)

ExpectIdentifier(s, char) ==
    LET l == IdentifierLoop(s, char) IN
    IF ~Ok(l) THEN l
    ELSE [l EXCEPT !.kind = IF l.ret \in keywords THEN "keyword" ELSE "identifier"]

\* Scanner._expect_symbol
RECURSIVE SymbolLoop(_, _)
SymbolLoop(s, value) ==
    LET p == PeekChar(s) IN
    IF ~Ok(p) THEN p
    ELSE IF p.ret = None THEN [s EXCEPT !.ret = value, !.kind = "symbol"]
    ELSE IF value \o p.ret = "//" THEN [s EXCEPT !.ret = None, !.kind = "comment"]
    ELSE IF (value \o p.ret) \notin symbols
         THEN [s EXCEPT !.ret = value, !.kind = "symbol"]
    ELSE SymbolLoop([s EXCEPT !.char_pos = s.char_pos + 1], value \o p.ret)

ExpectSymbol(s, char) == SymbolLoop(s, char)

\* Scanner.next_token: ret is the Token returned
RECURSIVE NextTokenOf(_)
NextTokenOf(s) ==
    LET w == NextWord(s) IN
    IF ~Ok(w) THEN w
    ELSE IF w.ret = None THEN [w EXCEPT !.ret = Token("eof", None, w.line_pos)]
    ELSE LET char == w.ret IN
         IF ~(char = "\"" \/ IsDigit(char) \/ IsAlpha(char) \/ char \in symbols)
         THEN LET warned == ScanWarning(w) IN
              IF ~Ok(warned) THEN warned ELSE NextTokenOf(warned)
         ELSE LET e == IF char = "\"" THEN ExpectString(w)
                       ELSE IF IsDigit(char) THEN ExpectNumber(w, char)
                       ELSE IF IsAlpha(char) THEN ExpectIdentifier(w, char)
                       ELSE ExpectSymbol(w, char)
              IN  IF ~Ok(e) THEN e
                  ELSE IF e.kind = "comment" THEN NextTokenOf(NextLine(e))
                  ELSE [e EXCEPT !.ret = Token(e.kind, e.ret, e.line_pos + 1)]

(***************************************************************************)
(* IdentifierTable                                                         *)
(***************************************************************************)
Identifier(name, type, size, params, mm_ptr) ==
    [name |-> name, type |-> type, size |-> size, params |-> params,
     mm_ptr |-> mm_ptr]
Parameter(id, direction) == [id |-> id, direction |-> direction]

\* The params attribute of an Identifier is a reference to a list.  The one
\* list that is shared and appended to after identifiers hold it is the
\* default argument of _parse_parameter_list; shared = TRUE stands for a
\* reference to that object, otherwise val is the list itself (or None,
\* which the code only ever tests for truth, as the empty list).
NoParams == [shared |-> FALSE, val |-> <<>>]
OwnList(v) == [shared |-> FALSE, val |-> v]
DefaultList == [shared |-> TRUE, val |-> <<>>]

NoId == Identifier(None, None, None, NoParams, 0)

\* The empty dict, and d[k] = v
EmptyScope == [n \in {} |-> NoId]
DictSet(d, k, v) == [n \in (DOMAIN d) \cup {k} |-> IF n = k THEN v ELSE d[n]]

\* The table's fields as one record, threaded through the methods.
Table(scopes, owners) ==
    [scopes |-> scopes, owners |-> owners, exc |-> NoExc, ret |-> NoId]

\* IdentifierTable.__init__
NewTable == Table(<<EmptyScope>>, <<"global">>)

\* IdentifierTable.push_scope
PushScope(t, owner_id) ==
    [t EXCEPT !.scopes = Append(t.scopes, EmptyScope),
              !.owners = Append(t.owners, owner_id)]

\* IdentifierTable.pop_scope: list.pop of an empty list raises IndexError
PopScope(t) ==
    IF t.scopes = <<>> THEN Raise(t, "IndexError")
    ELSE [t EXCEPT !.scopes = SubSeq(t.scopes, 1, Len(t.scopes) - 1),
                   !.owners = SubSeq(t.owners, 1, Len(t.owners) - 1)]

\* A variant of add that installs the identifier without looking for the
\* name in the current scope.
AddOverwriting(t, identifier, is_global) ==
    LET n     == Len(t.scopes)
        scope == IF is_global THEN 1 ELSE n
    IN  IF n = 0 THEN Raise(t, "IndexError")
        ELSE IF is_global /\ n > 2 THEN Raise(t, "ParserNameError")
        ELSE IF is_global /\ (identifier.name \in DOMAIN t.scopes[1]
                              \/ (n > 1 /\ identifier.name \in DOMAIN t.scopes[2]))
             THEN Raise(t, "ParserNameError")
        ELSE [t EXCEPT !.scopes[scope] = DictSet(t.scopes[scope], identifier.name, identifier)]

\* IdentifierTable.add
Add(t, identifier, is_global) ==
    LET n     == Len(t.scopes)
        scope == IF is_global THEN 1 ELSE n      \* self[0] or self[-1]
    IN  IF is_global /\ n > 2 THEN Raise(t, "ParserNameError")
        ELSE IF n = 0 THEN Raise(t, "IndexError")
        ELSE IF is_global /\ (identifier.name \in DOMAIN t.scopes[1]
                              \/ (n > 1 /\ identifier.name \in DOMAIN t.scopes[2]))
             THEN Raise(t, "ParserNameError")
        ELSE IF ~is_global /\ identifier.name \in DOMAIN t.scopes[n]
             THEN Raise(t, "ParserNameError")
        ELSE [t EXCEPT !.scopes[scope] = DictSet(t.scopes[scope], identifier.name, identifier)]

\* A variant of find that walks every enclosing scope, innermost first.
RECURSIVE FindEnclosing(_, _, _)
FindEnclosing(t, name, i) ==
    IF i = 0 THEN Raise(t, "ParserNameError")
    ELSE IF name \in DOMAIN t.scopes[i] THEN [t EXCEPT !.ret = t.scopes[i][name]]
    ELSE FindEnclosing(t, name, i - 1)

FindNested(t, name) ==
    IF t.scopes = <<>> THEN Raise(t, "IndexError")
    ELSE FindEnclosing(t, name, Len(t.scopes))

\* IdentifierTable.find
Find(t, name) ==
    LET n == Len(t.scopes) IN
    IF n = 0 THEN Raise(t, "IndexError")
    ELSE IF name \in DOMAIN t.scopes[n] THEN [t EXCEPT !.ret = t.scopes[n][name]]
    ELSE IF name \in DOMAIN t.scopes[1] THEN [t EXCEPT !.ret = t.scopes[1][name]]
    ELSE Raise(t, "ParserNameError")

\* IdentifierTable.is_global
IsGlobal(t, name) == name \in DOMAIN t.scopes[1]

(***************************************************************************)
(* CodeGenerator: counters and the code buffer.  A generated line is kept  *)
(* as its format string with the values formatted into it: s is the text   *)
(* argument (a label, a literal), a, b and c the integer arguments.        *)
(* Comments are generated only under debug, which is False by default, and *)
(* the indentation of a line is not kept.                                  *)
(***************************************************************************)
Line(fmt, s, a, b, c) == [fmt |-> fmt, s |-> s, a |-> a, b |-> b, c |-> c]

\* int(text) of the text of an integer token
StrToInt(text) == CHOOSE n \in 0..99 : ToString(n) = text

\* CodeGenerator.generate
Gen(s, line) == [s EXCEPT !.code = Append(@, line)]

\* CodeGenerator.generate, called for each of lines in turn
GenAll(s, lines) == [s EXCEPT !.code = @ \o lines]

\* A variant of get_reg that hands out the current register again.
GetRegAgain(s) == s

\* CodeGenerator.get_reg(inc=True); the register returned is the new reg
GetReg(s) == [s EXCEPT !.reg = @ + 1]

\* A label id that is handed out again
GetLabelIdAgain(s) == s

\* CodeGenerator.get_label_id; the id returned is the new label_id
GetLabelId(s) == [s EXCEPT !.label_id = @ + 1]

\* A call id that is handed out again
GetUniqueCallIdAgain(s) == s

\* CodeGenerator.get_unique_call_id; the id returned is the new unique_id
GetUniqueCallId(s) == [s EXCEPT !.unique_id = @ + 1]

\* Parameter offsets that start at 0
ResetParamPtrToZero(s) == [s EXCEPT !.param_ptr = 0]

\* CodeGenerator.reset_local_ptr, reset_param_ptr
ResetLocalPtr(s) == [s EXCEPT !.local_ptr = 1]
ResetParamPtr(s) == [s EXCEPT !.param_ptr = 1]

\* CodeGenerator.get_mm(id_size, is_param); ret is the offset returned.
\* (The parser also passes is_global, which this generator does not take:
\* a global variable is given an offset from the local pointer as well.)
GetMM(s, id_size, is_param) ==
    LET mem_needed == IF id_size # None THEN StrToInt(id_size) ELSE 1 IN
    IF is_param
    THEN [s EXCEPT !.ret = s.param_ptr, !.param_ptr = @ + mem_needed]
    ELSE [s EXCEPT !.ret = s.local_ptr, !.local_ptr = @ + mem_needed]

\* CodeGenerator.generate_operation (the parser calls it do_operation);
\* the register returned is the new reg
DoOperation(s, reg1, type1, reg2, type2, operation) ==
    With(GetReg(s), LAMBDA r :
        IF type1 # "float" /\ type2 # "float"
        THEN Gen(r, Line("R[%d] = R[%d] %s R[%d];", operation, r.reg, reg1, reg2))
        ELSE GenAll(r, <<
                IF type1 # "float"
                THEN Line("R_FLOAT_1 = R[%d];", "", reg1, 0, 0)
                ELSE Line("memcpy(&R_FLOAT_1, &R[%d], sizeof(float));", "", reg1, 0, 0),
                IF type2 # "float"
                THEN Line("R_FLOAT_2 = R[%d];", "", reg2, 0, 0)
                ELSE Line("memcpy(&R_FLOAT_2, &R[%d], sizeof(float));", "", reg2, 0, 0),
                Line("R_FLOAT_1 = R_FLOAT_1 %s R_FLOAT_2;", operation, 0, 0, 0),
                Line("memcpy(&R[%d], &R_FLOAT_1, sizeof(float));", "", r.reg, 0, 0) >>))

(***************************************************************************)
(* Parser: tokens and diagnostics                                          *)
(***************************************************************************)
\* Token('eof', None, self._line_pos): the sources parsed are one line long
EofToken == Token("eof", None, 1)

\* The token Scanner.next_token() hands out next
ScannerNext(s) == IF s.pos < Len(toks) THEN toks[s.pos + 1] ELSE EofToken

\* Parser._advance_token
AdvanceToken(s) ==
    LET moved == [s EXCEPT !.previous = s.current, !.current = s.future] IN
    IF s.future = NoToken \/ s.future.type # "eof"
    THEN [moved EXCEPT !.future = ScannerNext(s),
                       !.pos = IF s.pos < Len(toks) THEN s.pos + 1 ELSE s.pos]
    ELSE moved

\* Parser._check
CheckToken(token, type, value) ==
    token.type = type /\ (token.value = value \/ value = None)
Check(s, type, value) == CheckToken(s.current, type, value)
CheckFuture(s, type, value) == CheckToken(s.future, type, value)

\* Parser._accept; ret is the Boolean returned
Accept(s, type, value) ==
    IF Check(s, type, value) THEN [AdvanceToken(s) EXCEPT !.ret = TRUE]
    ELSE [s EXCEPT !.ret = FALSE]

\* Parser._warning with prefix 'Error', as the four error methods call it:
\* the kind of diagnostic is appended to the list of those printed
Diagnose(s, kind) == [s EXCEPT !.errors = Append(@, kind), !.has_errors = TRUE]

\* Parser._syntax_error
SyntaxError(s) == Raise(Diagnose(s, "syntax"), "ParserSyntaxError")
\* Parser._name_error, _type_error, _runtime_error
NameError(s) == Diagnose(s, "name")
TypeError(s) == Diagnose(s, "type")
RuntimeError(s) == Diagnose(s, "runtime")

\* Parser._match; ret is the Token returned
Match(s, type, value) ==
    IF Check(s, type, value) THEN [AdvanceToken(s) EXCEPT !.ret = s.current]
    ELSE SyntaxError(s)

\* The exceptions `except ParserError` catches
ParserErrors == {"ParserSyntaxError", "ParserNameError", "ParserTypeError",
                 "ParserRuntimeError"}

\* The list object an identifier's params attribute refers to
ParamsOf(s, id) == IF id.params.shared THEN s.default_params ELSE id.params.val

(***************************************************************************)
(* IdentifierTable methods that look at the owner of the current scope     *)
(***************************************************************************)
\* IdentifierTable.get_current_scope_owner; ret is the owner's Identifier,
\* NoId for None
GetCurrentScopeOwner(s) ==
    LET n == Len(s.owners) IN
    IF n = 0 THEN Raise(s, "IndexError")
    ELSE IF s.owners[n] = "global" THEN [s EXCEPT !.ret = NoId]
    ELSE IF s.owners[n] \notin DOMAIN s.scopes[n] THEN Raise(s, "KeyError")
    ELSE [s EXCEPT !.ret = s.scopes[n][s.owners[n]]]

\* IdentifierTable.is_param; ret is the Boolean returned
IsParam(s, name) ==
    Bind(GetCurrentScopeOwner(s), LAMBDA o :
        IF o.ret = NoId THEN Raise(s, "AttributeError")   \* None.params
        ELSE [s EXCEPT !.ret = \E i \in 1..Len(ParamsOf(s, o.ret)) :
                                    ParamsOf(s, o.ret)[i].id.name = name])

\* IdentifierTable.get_param_direction; ret is 'in', 'out' or None
GetParamDirection(s, name) ==
    Bind(GetCurrentScopeOwner(s), LAMBDA o :
        IF o.ret = NoId THEN Raise(s, "AttributeError")
        ELSE With({i \in 1..Len(ParamsOf(s, o.ret)) :
                        ParamsOf(s, o.ret)[i].id.name = name}, LAMBDA hits :
                [s EXCEPT !.ret =
                    IF hits = {} THEN None
                    ELSE ParamsOf(s, o.ret)[CHOOSE i \in hits :
                                                \A j \in hits : i <= j].direction]))

\* IdentifierTable.get_id_location; ret is 'global', 'param' or 'local'
GetIdLocation(s, name) ==
    IF s.scopes = <<>> THEN Raise(s, "IndexError")
    ELSE IF IsGlobal(s, name) THEN [s EXCEPT !.ret = "global"]
    ELSE Bind(IsParam(s, name), LAMBDA p :
            [s EXCEPT !.ret = IF p.ret THEN "param" ELSE "local"])

\* `try: id = self._ids.find(name) except ParserNameError as e:
\* self._name_error(...); raise e`; ret is the Identifier found
FindOrNameError(s, name) ==
    IF Find(s, name).exc = "ParserNameError"
    THEN Raise(NameError(s), "ParserNameError")
    ELSE Find(s, name)

(***************************************************************************)
(* Parser: expressions                                                     *)
(***************************************************************************)
ValueTypes == {"integer", "float", "bool", "string"}

\* Every operator taken to be an arithmetic one
TypesOfArithmetic(level) == {"integer", "float"}

\* The operators each of _parse_expression, _parse_arith_op, _parse_relation
\* and _parse_term accepts, and the operand types it allows
OpsOf(level) ==
    CASE level = "expr"  -> {"&", "|"}
      [] level = "arith" -> {"+", "-"}
      [] level = "rel"   -> {"<", ">", "<=", ">=", "==", "!="}
      [] level = "term"  -> {"*", "/"}
TypesOf(level) ==
    CASE level = "expr"  -> {"integer", "bool"}
      [] level = "arith" -> {"integer", "float"}
      [] level = "rel"   -> {"integer", "bool"}
      [] level = "term"  -> {"integer", "float"}

RECURSIVE ParseExpression(_), ParseLevel(_, _), ParseOperand(_, _),
          OpLoop(_, _, _, _), ParseFactor(_), ParseName(_)

\* Parser._parse_number; ret is the type of the number
ParseNumber(s, negate) ==
    IF ~(Check(s, "integer", None) \/ Check(s, "float", None)) THEN SyntaxError(s)
    ELSE With(GetReg(AdvanceToken(s)), LAMBDA r :
         [(IF s.current.type = "integer"
           THEN Gen(r, Line(IF negate THEN "R[%d] = -%s;" ELSE "R[%d] = %s;",
                            s.current.value, r.reg, 0, 0))
           ELSE Gen(Gen(r, Line(IF negate THEN "R_FLOAT_1 = -%s;" ELSE "R_FLOAT_1 = %s;",
                                s.current.value, 0, 0, 0)),
                    Line("memcpy(&R[%d], &R_FLOAT_1, sizeof(float));", "", r.reg, 0, 0)))
          EXCEPT !.ret = s.current.type])

\* The address computation _parse_name and _parse_assignment_statement
\* share, read = TRUE for a name (a parameter must be 'in'), FALSE for a
\* destination (it must be 'out'); index_reg is the register read before
IdAddress(s, id, index_reg, read) ==
    With(GetReg(s), LAMBDA r :
    With(GenAll(r, << Line("R[%d] = %d;", "", r.reg, id.mm_ptr, 0) >>
                   \o IF id.size # None
                      THEN << Line("R[%d] = R[%d] + R[%d];", "", r.reg, r.reg, index_reg) >>
                      ELSE << >>), LAMBDA g :
    Bind(IsParam(g, id.name), LAMBDA p :
        IF p.ret
        THEN Bind(GetParamDirection(g, id.name), LAMBDA d :
                IF read /\ d.ret # "in"
                THEN Raise(g, "NameError")        \* `line` is not defined there
                ELSE IF ~read /\ d.ret # "out"
                THEN Raise(TypeError(g), "ParserTypeError")
                ELSE Gen(g, Line("R[%d] = R[FP] + 1 + R[%d];", "", r.reg, r.reg, 0)))
        ELSE IF ~IsGlobal(g, id.name)
        THEN Gen(g, Line("R[%d] = R[FP] - R[%d];", "", r.reg, r.reg, 0))
        ELSE g)))

\* Parser._parse_name, lines 1522-1531: the index of the name
ParseNameIndex(s, id) ==
    IF Check(s, "symbol", "[")
    THEN Bind(ParseExpression(AdvanceToken(s)), LAMBDA e :
            IF e.ret # "integer" THEN Raise(TypeError(e), "ParserTypeError")
            ELSE Match(e, "symbol", "]"))
    ELSE IF id.size # None THEN RuntimeError(s) ELSE s

\* Parser._parse_name; ret is the type of the name
ParseName(s) ==
    Bind(Match(s, "identifier", None), LAMBDA m :
    Bind(FindOrNameError(m, s.current.value), LAMBDA f :
        IF f.ret.type \notin ValueTypes THEN Raise(TypeError(m), "ParserTypeError")
        ELSE Bind(ParseNameIndex(m, f.ret), LAMBDA x :
             Bind(IdAddress(x, f.ret, x.reg, TRUE), LAMBDA addr :
                [Gen(addr, Line("R[%d] = MM[R[%d]];", "", addr.reg, addr.reg, 0))
                 EXCEPT !.ret = f.ret.type]))))

\* A factor that is one token: true, false or a string
Literal(s, fmt, text, type) ==
    With(GetReg(AdvanceToken(s)), LAMBDA r :
        [Gen(r, Line(fmt, text, r.reg, 0, 0)) EXCEPT !.ret = type])

\* Parser._parse_factor; ret is the type of the factor
ParseFactor(s) ==
    IF Check(s, "symbol", "(")
    THEN Bind(ParseExpression(AdvanceToken(s)), LAMBDA e :
         Bind(Match(e, "symbol", ")"), LAMBDA m : [m EXCEPT !.ret = e.ret]))
    ELSE IF Check(s, "string", None)
    THEN Literal(s, "R[%d] = (int)\"%s\";", s.current.value, "string")
    ELSE IF Check(s, "keyword", "true") THEN Literal(s, "R[%d] = 1;", "", "bool")
    ELSE IF Check(s, "keyword", "false") THEN Literal(s, "R[%d] = 0;", "", "bool")
    ELSE IF Check(s, "symbol", "-")
    THEN With(AdvanceToken(s), LAMBDA a :
            IF Check(a, "identifier", None) THEN ParseName(a)
            ELSE IF Check(a, "integer", None) \/ Check(a, "float", None)
            THEN ParseNumber(a, TRUE)
            ELSE SyntaxError(a))
    ELSE IF Check(s, "identifier", None) THEN ParseName(s)
    ELSE IF Check(s, "integer", None) \/ Check(s, "float", None)
    THEN ParseNumber(s, FALSE)
    ELSE SyntaxError(s)

\* The operand of an operator of `level`: the next level down
ParseOperand(s, level) ==
    IF level = "term" THEN ParseFactor(s)
    ELSE ParseLevel(s, CASE level = "expr"  -> "arith"
                         [] level = "arith" -> "rel"
                         [] level = "rel"   -> "term")

\* The `while True` loop of _parse_expression, _parse_arith_op,
\* _parse_relation and _parse_term, entered with the fields s, the type of
\* the first operand and the negate of _parse_expression; ret is the type
OpLoop(s, level, type, negate) ==
    IF ~(s.current.type = "symbol" /\ s.current.value \in OpsOf(level))
    THEN [s EXCEPT !.ret = type]
    ELSE IF type \notin TypesOf(level)
    THEN Raise(TypeError(AdvanceToken(s)), "ParserTypeError")
    ELSE Bind(ParseOperand(AdvanceToken(s), level), LAMBDA n :
            IF n.ret \notin TypesOf(level)
            THEN Raise(TypeError(n), "ParserTypeError")
            ELSE With(DoOperation(n, s.reg, type, n.reg, n.ret, s.current.value), LAMBDA d :
                    OpLoop(IF negate
                           THEN Gen(d, Line("R[%d] = ~R[%d];", "", d.reg, d.reg, 0))
                           ELSE d,
                           level, type, negate)))

\* Parser._parse_arith_op, _parse_relation, _parse_term
ParseLevel(s, level) ==
    Bind(ParseOperand(s, level), LAMBDA first : OpLoop(first, level, first.ret, FALSE))

\* Parser._parse_expression; ret is the type of the expression
ParseExpression(s) ==
    With(Accept(s, "keyword", "not"), LAMBDA a :
    Bind(ParseLevel(a, "arith"), LAMBDA t :
        IF a.ret /\ t.ret \notin {"integer", "bool"}
        THEN Raise(TypeError(t), "ParserTypeError")
        ELSE OpLoop(t, "expr", t.ret, a.ret)))

(***************************************************************************)
(* Parser: declarations                                                    *)
(***************************************************************************)
\* Parser._parse_type_mark; ret is the type
ParseTypeMark(s) ==
    IF s.current.type = "keyword" /\ s.current.value \in ValueTypes
    THEN [AdvanceToken(s) EXCEPT !.ret = s.current.value]
    ELSE SyntaxError(s)

\* Parser._parse_variable_declaration, lines 505-517; ret is var_size
VarSize(s) ==
    IF Check(s, "symbol", "[")
    THEN Bind(ParseNumber(AdvanceToken(s), FALSE), LAMBDA n :
            IF n.ret # "integer" THEN Raise(TypeError(n), "ParserTypeError")
            ELSE Bind(Match(n, "symbol", "]"), LAMBDA b :
                    [b EXCEPT !.ret = n.previous.value]))
    ELSE [s EXCEPT !.ret = None]

\* Parser._parse_variable_declaration; ret is the Identifier declared
ParseVariableDeclaration(s, is_global, is_param) ==
    Bind(ParseTypeMark(s), LAMBDA t :
    Bind(Match(t, "identifier", None), LAMBDA m :
    Bind(VarSize(m), LAMBDA x :
    With(GetMM(x, x.ret, is_param), LAMBDA g :
    With(Identifier(m.ret.value, t.ret, x.ret, NoParams, g.ret), LAMBDA id :
        IF is_param THEN [g EXCEPT !.ret = id]
        ELSE IF Add(g, id, is_global).exc = "ParserNameError"
        THEN [NameError(g) EXCEPT !.ret = id]
        ELSE [Add(g, id, is_global) EXCEPT !.ret = id])))))

\* Parser._parse_parameter; ret is the Parameter
ParseParameter(s) ==
    Bind(ParseVariableDeclaration(s, FALSE, TRUE), LAMBDA v :
        IF Check(v, "keyword", "in") \/ Check(v, "keyword", "out")
        THEN [AdvanceToken(v) EXCEPT !.ret = Parameter(v.ret, v.current.value)]
        ELSE SyntaxError(v))

\* Parser._parse_parameter_list(params=[]): the header calls it without the
\* argument, so every parameter of every procedure is appended to the one
\* list object that is the default value of params
RECURSIVE ParseParameterList(_)
ParseParameterList(s) ==
    Bind(ParseParameter(s), LAMBDA p :
    With(Accept([p EXCEPT !.default_params = Append(@, p.ret)], "symbol", ","), LAMBDA a :
        IF a.ret THEN ParseParameterList(a) ELSE a))

\* `for param in params: try: add(param.id) except ParserNameError: ...`
RECURSIVE AddParams(_, _, _)
AddParams(s, params, i) ==
    IF i > Len(params) THEN s
    ELSE IF Add(s, params[i].id, FALSE).exc = "ParserNameError"
    THEN AddParams(NameError(s), params, i + 1)
    ELSE Bind(Add(s, params[i].id, FALSE), LAMBDA ad : AddParams(ad, params, i + 1))

\* Parser._parse_procedure_header; ret is the Identifier of the procedure.
\* The scope is pushed only when adding the procedure to the enclosing
\* scope succeeds (lines 622-631)
ParseProcedureHeader(s, is_global) ==
    Bind(Match(s, "keyword", "procedure"), LAMBDA m1 :
    Bind(Match(m1, "identifier", None), LAMBDA m2 :
    Bind(Match(m2, "symbol", "("), LAMBDA m3 :
    Bind(IF Check(m3, "symbol", ")") THEN m3 ELSE ParseParameterList(m3), LAMBDA pl :
    Bind(Match(pl, "symbol", ")"), LAMBDA m4 :
    With(GetLabelId(m4), LAMBDA l :
    With(Identifier(m1.current.value, "procedure", None,
                    IF Check(m3, "symbol", ")") THEN NoParams ELSE DefaultList,
                    l.label_id), LAMBDA id :
    Bind(IF Add(l, id, is_global).exc = "ParserNameError" THEN NameError(l)
         ELSE Bind(Add(l, id, is_global), LAMBDA a1 :
                Add(PushScope(a1, id.name), id, FALSE)), LAMBDA tr :
    Bind(AddParams(tr, ParamsOf(tr, id), 1), LAMBDA ps :
        [GenAll(ps, << Line("%s_%d:", id.name, id.mm_ptr, 0, 0),
                       Line("goto %s_%d_begin;", id.name, id.mm_ptr, 0, 0),
                       Line("", "", 0, 0, 0) >>)
         EXCEPT !.ret = id])))))))))

(***************************************************************************)
(* Parser: assignment and procedure call                                   *)
(***************************************************************************)
\* Parser._parse_destination, lines 1205-1220: the index of the destination
DestinationIndex(s, id) ==
    IF Check(s, "symbol", "[")
    THEN Bind(ParseExpression(AdvanceToken(s)), LAMBDA e :
            Accept(IF e.ret # "integer" THEN TypeError(e) ELSE e, "symbol", "]"))
    ELSE IF id.size # None THEN RuntimeError(s) ELSE s

\* Parser._parse_destination; ret is the type of the destination
ParseDestination(s) ==
    Bind(Match(s, "identifier", None), LAMBDA m :
    Bind(FindOrNameError(m, s.current.value), LAMBDA f :
        IF f.ret.type \notin ValueTypes THEN Raise(TypeError(m), "ParserTypeError")
        ELSE Bind(DestinationIndex(m, f.ret), LAMBDA x :
                [x EXCEPT !.ret = f.ret.type])))

\* An assignment statement that stores the expression whatever its type is
ParseAssignmentStatementUnchecked(s) ==
    Bind(ParseDestination(s), LAMBDA d :
    Bind(Match(d, "symbol", ":="), LAMBDA m :
    Bind(ParseExpression(m), LAMBDA e :
    Bind(IdAddress(e, Find(d, s.current.value).ret, d.reg, FALSE), LAMBDA addr :
        Gen(addr, Line("MM[R[%d]] = R[%d];", "", addr.reg, e.reg, 0))))))

\* Parser._parse_assignment_statement
ParseAssignmentStatement(s) ==
    Bind(ParseDestination(s), LAMBDA d :
    Bind(Match(d, "symbol", ":="), LAMBDA m :
    Bind(ParseExpression(m), LAMBDA e :
    Bind(IdAddress(IF d.ret # e.ret THEN TypeError(e) ELSE e,
                   Find(d, s.current.value).ret, d.reg, FALSE), LAMBDA addr :
        Gen(addr, Line("MM[R[%d]] = R[%d];", "", addr.reg, e.reg, 0))))))

RECURSIVE ParseArgumentList(_, _, _)

\* A variant of _parse_argument_list that parses every argument as an
\* expression, whatever the direction of its parameter.
ParseArgumentListOfExpressions(s, params, index) ==
    IF index > Len(params) - 1
    THEN Raise(RuntimeError(s), "ParserRuntimeError")
    ELSE Bind(Bind(ParseExpression(s), LAMBDA e :
                [e EXCEPT !.default_out_names = Append(@, None)]), LAMBDA a :
         With(Accept(IF a.ret # params[index + 1].id.type THEN TypeError(a) ELSE a,
                     "symbol", ","), LAMBDA c :
         Bind(IF c.ret THEN ParseArgumentList(c, params, index + 1)
              ELSE [c EXCEPT !.ret = index + 1], LAMBDA r :
            GenAll(r, << Line("R[SP] = R[SP] - 1;", "", 0, 0, 0),
                         Line("MM[R[SP]] = R[%d];", "", a.reg, 0, 0) >>))))

\* Parser._parse_argument_list(params, index=0, out_names=[]): the call
\* passes no out_names, so the names are appended to the one list object that
\* is the default value of out_names.  ret is the number of arguments
ParseArgumentList(s, params, index) ==
    IF index > Len(params) - 1
    THEN Raise(RuntimeError(s), "ParserRuntimeError")
    ELSE Bind(IF params[index + 1].direction = "out"
              THEN Bind(ParseName(s), LAMBDA n :
                      [n EXCEPT !.default_out_names = Append(@, n.previous.value)])
              ELSE Bind(ParseExpression(s), LAMBDA e :
                      [e EXCEPT !.default_out_names = Append(@, None)]), LAMBDA a :
         With(Accept(IF a.ret # params[index + 1].id.type THEN TypeError(a) ELSE a,
                     "symbol", ","), LAMBDA c :
         Bind(IF c.ret THEN ParseArgumentList(c, params, index + 1)
              ELSE [c EXCEPT !.ret = index + 1], LAMBDA r :
            IF params[index + 1].id.size # None
            THEN Raise(r, "TypeError")       \* '%d' % a string
            ELSE GenAll(r, << Line("R[SP] = R[SP] - 1;", "", 0, 0, 0),
                              Line("MM[R[SP]] = R[%d];", "", a.reg, 0, 0) >>))))

\* `for index, param in enumerate(id.params)` of _parse_procedure_call
RECURSIVE PopParams(_, _, _, _)
PopParams(s, params, out_names, i) ==
    IF i > Len(params) THEN s
    ELSE IF i > Len(out_names) THEN Raise(s, "IndexError")
    ELSE IF params[i].id.size # None THEN Raise(s, "TypeError")   \* range(a string)
    ELSE With(Gen(s, Line("R[SP] = R[SP] + 1;", "", 0, 0, 0)), LAMBDA g :
            IF params[i].direction = "out"
            THEN Bind(Find(g, out_names[i]), LAMBDA f :
                    PopParams(Gen(g, Line(IF IsGlobal(g, out_names[i])
                                          THEN "MM[%d] = MM[R[SP]];"
                                          ELSE "MM[R[FP]-%d] = MM[R[SP]];",
                                          "", f.ret.mm_ptr, 0, 0)),
                              params, out_names, i + 1))
            ELSE PopParams(g, params, out_names, i + 1))

\* Parser._parse_procedure_call
ParseProcedureCall(s) ==
    Bind(Match(s, "identifier", None), LAMBDA m :
    Bind(FindOrNameError(m, s.current.value), LAMBDA f :
        IF f.ret.type # "procedure" THEN Raise(TypeError(m), "ParserTypeError")
        ELSE
    Bind(Match(m, "symbol", "("), LAMBDA m2 :
    Bind(IF Check(m2, "symbol", ")") THEN m2
         ELSE Bind(ParseArgumentList(m2, ParamsOf(m2, f.ret), 0), LAMBDA r :
                IF r.ret < Len(ParamsOf(m2, f.ret))
                THEN Raise(RuntimeError(r), "ParserRuntimeError")
                ELSE r), LAMBDA al :
    Bind(Match(al, "symbol", ")"), LAMBDA m3 :
    With(GetUniqueCallId(m3), LAMBDA u :
    Bind(PopParams(GenAll(u, <<
            Line("R[SP] = R[SP] - 1;", "", 0, 0, 0),
            Line("MM[R[SP]] = R[FP];", "", 0, 0, 0),
            Line("R[SP] = R[SP] - 1;", "", 0, 0, 0),
            Line("R[FP] = R[SP];", "", 0, 0, 0),
            Line("MM[R[SP]] = (int)&&%s_%d_%d;", f.ret.name, f.ret.mm_ptr, u.unique_id, 0),
            Line("goto %s_%d;", f.ret.name, f.ret.mm_ptr, 0, 0),
            Line("%s_%d_%d:", f.ret.name, f.ret.mm_ptr, u.unique_id, 0),
            Line("R[SP] = R[SP] + 1;", "", 0, 0, 0),
            Line("R[FP] = MM[R[SP]];", "", 0, 0, 0) >>),
         ParamsOf(u, f.ret),
         IF Check(m2, "symbol", ")") THEN <<>> ELSE al.default_out_names,
         1), LAMBDA pp :
        Gen(pp, Line("R[SP] = R[SP] + 1;", "", 0, 0, 0)))))))))

(***************************************************************************)
(* The values every specification gives the variables of the components   *)
(* it does not exercise.                                                   *)
(***************************************************************************)
NoOp == [op |-> "none", name |-> None, is_global |-> FALSE, mm_ptr |-> 0]

ScanIdle ==
    /\ src = <<>>
    /\ line_pos = 0
    /\ char_pos = 0
    /\ tok = NoToken
    /\ scan_exc = NoExc
    /\ warnings = 0

TableIdle ==
    /\ ids = NewTable.scopes
    /\ owner_ids = NewTable.owners

TableOpIdle ==
    /\ t_op = NoOp
    /\ t_ret = NoId
    /\ t_exc = NoExc

\* Parser.__init__ and CodeGenerator.__init__, no source attached
NoFile == [exists |-> FALSE, text |-> <<>>]
ParserNew ==
    /\ pos = 0
    /\ previous = NoToken
    /\ current = NoToken
    /\ future = NoToken
    /\ has_errors = FALSE
    /\ errors = <<>>
    /\ reg = 4
    /\ label_id = 0
    /\ unique_id = 0
    /\ local_ptr = 1
    /\ param_ptr = 1
    /\ code = <<>>
    /\ default_params = <<>>
    /\ default_out_names = <<>>
    /\ ctl = <<>>
    /\ phase = "new"
    /\ parse_ret = None
    /\ parse_exc = NoExc
    /\ dest_file = NoFile
    /\ compiled = <<>>

ParserIdle ==
    /\ toks = <<>>
    /\ ParserNew

(***************************************************************************)
(* The scanner as a state machine: a source is attached, then next_token   *)
(* is called repeatedly for as long as no call has raised.                 *)
(***************************************************************************)
\* Scanner.attach_source, for every file of at most MaxSrcLen characters
ScanInit ==
    /\ \E text \in SeqsUpTo(Chars, MaxSrcLen) : src = SplitLines(text, <<>>)
    /\ line_pos = 0
    /\ char_pos = 0
    /\ tok = NoToken
    /\ scan_exc = NoExc
    /\ warnings = 0
    /\ TableIdle
    /\ TableOpIdle
    /\ ParserIdle

\* One call of Scanner.next_token
next_token ==
    /\ scan_exc = NoExc
    /\ LET r == NextTokenOf(ScanState) IN
       /\ line_pos' = r.line_pos
       /\ char_pos' = r.char_pos
       /\ warnings' = r.warnings
       /\ scan_exc' = r.exc
       /\ tok' = IF Ok(r) THEN r.ret ELSE NoToken
       /\ UNCHANGED src
    /\ UNCHANGED <<tablevars, tableopvars, parservars>>

ScanNext == next_token

ScanSpec == ScanInit /\ [][ScanNext]_vars

(***************************************************************************)
(* The identifier table as a state machine: any sequence of push_scope,    *)
(* pop_scope, add and find.  pop_scope is called only while a scope other  *)
(* than the global one is on the stack, which is the contract its callers  *)
(* are given; scopes nest at most MaxDepth deep.                           *)
(***************************************************************************)
MaxDepth == 3

Names == {"x", "y"}
\* The identifiers handed to add: mm_ptr tells two records of a name apart.
TableIds == {Identifier(n, "integer", None, NoParams, m) : n \in Names, m \in {1, 2}}

TableNow == Table(ids, owner_ids)

TableInit ==
    /\ TableIdle
    /\ TableOpIdle
    /\ ScanIdle
    /\ ParserIdle

SetTable(t, op) ==
    /\ ids' = t.scopes
    /\ owner_ids' = t.owners
    /\ t_op' = op
    /\ t_ret' = t.ret
    /\ t_exc' = t.exc

push_scope ==
    /\ Len(ids) < MaxDepth
    /\ \E owner \in Names :
         SetTable(PushScope(TableNow, owner), [NoOp EXCEPT !.op = "push_scope", !.name = owner])
    /\ UNCHANGED <<scanvars, parservars>>

pop_scope ==
    /\ Len(ids) > 1
    /\ SetTable(PopScope(TableNow), [NoOp EXCEPT !.op = "pop_scope"])
    /\ UNCHANGED <<scanvars, parservars>>

add ==
    /\ \E id \in TableIds, is_global \in BOOLEAN :
         SetTable(Add(TableNow, id, is_global),
                  [op |-> "add", name |-> id.name, is_global |-> is_global,
                   mm_ptr |-> id.mm_ptr])
    /\ UNCHANGED <<scanvars, parservars>>

find ==
    /\ \E name \in Names :
         SetTable(Find(TableNow, name), [NoOp EXCEPT !.op = "find", !.name = name])
    /\ UNCHANGED <<scanvars, parservars>>

TableNext == push_scope \/ pop_scope \/ add \/ find

TableSpec == TableInit /\ [][TableNext]_vars

(***************************************************************************)
(* The parser as a state machine.  Parser.parse is one call; it is cut     *)
(* into steps at the loops of the parse methods, so that a loop that never *)
(* ends is a behaviour of the model.  ctl is the stack of the parse        *)
(* methods that are inside one of their loops; a frame is                  *)
(*   kind   "program", "procedure", "if" or "for"                          *)
(*   pc     the loop the method is in: "decls" or "stmts" of a body,       *)
(*          "then" or "else" of an if, "init" or "body" of a for           *)
(*   sub    "try"    about to test the loop and parse the next item,       *)
(*          "resync" inside _resync_at_token('symbol', ';'),               *)
(*          "semi"   about to _match('symbol', ';')                        *)
(*   name, label   the id of the program or procedure, or the label_id     *)
(*   size   local_var_size                                                 *)
(***************************************************************************)
Frame(kind, pc, sub, name, label, size) ==
    [kind |-> kind, pc |-> pc, sub |-> sub, name |-> name, label |-> label,
     size |-> size]

\* The parser's and the generator's fields as one record, threaded through
\* the parse methods like the table's
ParserNow ==
    [pos |-> pos, previous |-> previous, current |-> current, future |-> future,
     scopes |-> ids, owners |-> owner_ids, has_errors |-> has_errors,
     errors |-> errors, reg |-> reg, label_id |-> label_id,
     unique_id |-> unique_id, local_ptr |-> local_ptr, param_ptr |-> param_ptr,
     code |-> code, default_params |-> default_params,
     default_out_names |-> default_out_names, exc |-> NoExc, ret |-> None]

\* What a step leaves behind: the fields, the frames, and how parse ended
Going(s, stack) ==
    [s |-> s, ctl |-> stack, phase |-> "body", parse_ret |-> None,
     parse_exc |-> NoExc, dest_file |-> NoFile]
Ended(s, ret, exc, file) ==
    [s |-> s, ctl |-> <<>>, phase |-> "done", parse_ret |-> ret,
     parse_exc |-> exc, dest_file |-> file]

Top(stack) == stack[Len(stack)]
Pop(stack) == SubSeq(stack, 1, Len(stack) - 1)
SetTop(stack, frame) == [stack EXCEPT ![Len(stack)] = frame]
SetSub(stack, sub) == [stack EXCEPT ![Len(stack)].sub = sub]

\* An exception raised inside the `try` of the method on top of the stack:
\* `except ParserError` starts the resynchronisation, any other exception
\* leaves every method and parse itself
Caught(r, stack) ==
    IF r.exc \in ParserErrors THEN Going(r, SetSub(stack, "resync"))
    ELSE Ended(r, None, r.exc, NoFile)

\* An exception raised by the method on top of the stack outside its `try`:
\* it reaches the `try` of its caller, or the `except ParserSyntaxError` of
\* parse (lines 88-91)
Unwound(r, stack) ==
    IF Len(stack) <= 1
    THEN IF r.exc = "ParserSyntaxError" THEN Ended(r, "False", NoExc, NoFile)
         ELSE Ended(r, None, r.exc, NoFile)
    ELSE Caught(r, Pop(stack))

\* The item parsed, or the nested statement returned: _match(';') is next
Parsed(r, stack) ==
    IF Ok(r) THEN Going(r, SetSub(stack, "semi")) ELSE Caught(r, stack)

SetParser(m) ==
    /\ pos' = m.s.pos
    /\ previous' = m.s.previous
    /\ current' = m.s.current
    /\ future' = m.s.future
    /\ ids' = m.s.scopes
    /\ owner_ids' = m.s.owners
    /\ has_errors' = m.s.has_errors
    /\ errors' = m.s.errors
    /\ reg' = m.s.reg
    /\ label_id' = m.s.label_id
    /\ unique_id' = m.s.unique_id
    /\ local_ptr' = m.s.local_ptr
    /\ param_ptr' = m.s.param_ptr
    /\ code' = m.s.code
    /\ default_params' = m.s.default_params
    /\ default_out_names' = m.s.default_out_names
    /\ ctl' = m.ctl
    /\ phase' = m.phase
    /\ parse_ret' = m.parse_ret
    /\ parse_exc' = m.parse_exc
    /\ dest_file' = m.dest_file
    /\ UNCHANGED <<toks, compiled, scanvars, tableopvars>>

\* CodeGenerator.runtime_functions: name, parameter name, type, direction
runtime_functions ==
    {<<"getString", "my_string", "string", "out">>,
     <<"putString", "my_string", "string", "in">>,
     <<"getBool", "my_bool", "bool", "out">>,
     <<"putBool", "my_bool", "bool", "in">>,
     <<"getInteger", "my_integer", "integer", "out">>,
     <<"putInteger", "my_integer", "integer", "in">>,
     <<"getFloat", "my_float", "float", "out">>,
     <<"putFloat", "my_float", "float", "in">>}

\* Parser._add_runtime: the names differ, so no add fails
AddRuntime(s) ==
    [s EXCEPT !.scopes[1] =
        [n \in (DOMAIN s.scopes[1]) \cup {f[1] : f \in runtime_functions} |->
            IF \E f \in runtime_functions : f[1] = n
            THEN LET f == CHOOSE g \in runtime_functions : g[1] = n IN
                 Identifier(n, "procedure", None,
                     OwnList(<<Parameter(Identifier(f[2], f[3], None, NoParams, 1), f[4])>>),
                     1)
            ELSE s.scopes[1][n]]]

\* Parser._parse_program_header; ret is the Identifier of the program
ParseProgramHeader(s) ==
    Bind(Match(s, "keyword", "program"), LAMBDA m1 :
    Bind(Match(m1, "identifier", None), LAMBDA m2 :
    With(GetLabelId(m2), LAMBDA l :
    With(Identifier(m1.current.value, "program", None, NoParams, l.label_id), LAMBDA id :
    Bind(Add(l, id, TRUE), LAMBDA a :
    Bind(Match(a, "keyword", "is"), LAMBDA m3 :
        [Add(PushScope(GenAll(m3, <<
                Line("MM[R[FP]] = (int)&&%s_%d_end;", id.name, id.mm_ptr, 0, 0),
                Line("goto %s_%d_begin;", id.name, id.mm_ptr, 0, 0),
                Line("", "", 0, 0, 0),
                Line("%s_%d_end:", id.name, id.mm_ptr, 0, 0),
                Line("return 0;", "", 0, 0, 0),
                Line("", "", 0, 0, 0) >>), id.name), id, FALSE)
         EXCEPT !.ret = id]))))))

\* Parser.parse up to the first loop of _parse_program_body: generate_header,
\* the two _advance_token, _add_runtime and _parse_program_header, whose
\* ParserSyntaxError reaches parse.  (The source and the destination are
\* attached: both paths are good.)
parse ==
    /\ phase = "new"
    /\ SetParser(
        With(ParseProgramHeader(AddRuntime(AdvanceToken(AdvanceToken(
                Gen(ParserNow, Line("<generate_header>", "", 0, 0, 0)))))), LAMBDA ph :
            IF Ok(ph)
            THEN Going(ph, <<Frame("program", "decls", "try", ph.ret.name,
                                   ph.ret.mm_ptr, 0)>>)
            ELSE Unwound(ph, <<>>)))

\* The code after the first loop of a body: the entry label and the
\* allocation of the local variables
BeginBody(s, frame) ==
    GenAll(s, << Line("%s_%d_begin:", frame.name, frame.label, 0, 0) >>
              \o IF frame.size # 0
                 THEN << Line("R[SP] = R[SP] - %d;", "", frame.size, 0, 0) >>
                 ELSE << >>)

\* Parser._parse_declaration.  A procedure declaration parses the header,
\* resets the pointers and enters _parse_procedure_body; a variable
\* declaration adds its size to local_var_size
ParseDeclaration(s, stack) ==
    With(Accept(s, "keyword", "global"), LAMBDA g :
        IF Check(g, "keyword", "procedure")
        THEN With(ParseProcedureHeader(g, g.ret), LAMBDA h :
                IF ~Ok(h) THEN Caught(h, stack)
                ELSE Going(ResetParamPtr(ResetLocalPtr(h)),
                           Append(stack, Frame("procedure", "decls", "try",
                                               h.ret.name, h.ret.mm_ptr, 0))))
        ELSE IF g.current.type = "keyword" /\ g.current.value \in ValueTypes
        THEN With(ParseVariableDeclaration(g, g.ret, FALSE), LAMBDA v :
                IF ~Ok(v) THEN Caught(v, stack)
                ELSE IF v.ret.size = None
                THEN Going(v, SetTop(stack, [Top(stack) EXCEPT !.size = @ + 1,
                                                               !.sub = "semi"]))
                ELSE IF Top(stack).kind = "program"       \* local_var_size += int(size)
                THEN Going(v, SetTop(stack, [Top(stack) EXCEPT
                                                !.size = @ + StrToInt(v.ret.size),
                                                !.sub = "semi"]))
                ELSE Caught(Raise(v, "TypeError"), stack))   \* local_var_size += size
        ELSE Caught(SyntaxError(g), stack))

\* One iteration of the first loop of _parse_program_body or
\* _parse_procedure_body, up to the _match(';'): `begin` ends the loop;
\* otherwise _parse_declaration
_parse_declaration ==
    /\ phase = "body"
    /\ ctl # <<>>
    /\ Top(ctl).pc = "decls" /\ Top(ctl).sub = "try"
    /\ SetParser(
        With(Accept(ParserNow, "keyword", "begin"), LAMBDA a :
            IF a.ret
            THEN Going(BeginBody(a, Top(ctl)), SetTop(ctl, [Top(ctl) EXCEPT !.pc = "stmts"]))
            ELSE ParseDeclaration(a, ctl)))

\* Parser._parse_statement, up to the first loop of an if or for statement
ParseStatement(s, stack) ==
    IF Check(s, "keyword", "return")
    THEN Parsed(Gen(AdvanceToken(s), Line("goto *(void*)MM[R[FP]];", "", 0, 0, 0)), stack)
    ELSE IF Check(s, "keyword", "if")
    THEN \* _parse_if_statement, lines 895-905
         With(Bind(Match(AdvanceToken(s), "symbol", "("), LAMBDA m1 :
              Bind(ParseExpression(m1), LAMBDA e :
              Bind(Match(e, "symbol", ")"), LAMBDA m2 :
              Bind(Match(m2, "keyword", "then"), LAMBDA m3 :
                GetLabelId(m3))))), LAMBDA l :
            IF ~Ok(l) THEN Caught(l, stack)
            ELSE Going(Gen(l, Line("if (!R[%d]) goto else_%d;", "", l.reg, l.label_id, 0)),
                       Append(stack, Frame("if", "then", "try", "", l.label_id, 0))))
    ELSE IF Check(s, "keyword", "for")
    THEN \* _parse_loop_statement, lines 967-973
         With(Match(AdvanceToken(s), "symbol", "("), LAMBDA m1 :
            IF ~Ok(m1) THEN Caught(m1, stack)
            ELSE With(ParseAssignmentStatement(m1), LAMBDA a :
                    IF Ok(a)
                    THEN Going(a, Append(stack, Frame("for", "init", "semi", "", 0, 0)))
                    ELSE Caught(a, Append(stack, Frame("for", "init", "try", "", 0, 0)))))
    ELSE IF CheckFuture(s, "symbol", "(") THEN Parsed(ParseProcedureCall(s), stack)
    ELSE IF Check(s, "identifier", None) THEN Parsed(ParseAssignmentStatement(s), stack)
    ELSE Caught(SyntaxError(s), stack)

\* The method on top of the stack is over: it returns to its caller, which
\* matches ';' next, or its exception reaches the caller's `try`
Returned(q, stack) ==
    IF ~Ok(q) THEN Unwound(q, stack) ELSE Going(q, SetSub(Pop(stack), "semi"))

\* The code after the statement loop of a body or of a for statement, `end`
\* accepted
EndLoop(s, stack) ==
    IF Top(stack).kind = "program"
    THEN \* _parse_program_body, lines 424-430, then parse goes on
         With(Bind(Match(s, "keyword", "program"), LAMBDA m : PopScope(m)), LAMBDA q :
            IF ~Ok(q) THEN Unwound(q, stack)
            ELSE [Going(q, <<>>) EXCEPT !.phase = "footer"])
    ELSE IF Top(stack).kind = "procedure"
    THEN \* _parse_procedure_body, lines 701-716
         Returned(Bind(Match(s, "keyword", "procedure"), LAMBDA m :
                    PopScope(GenAll(m, << Line("R[SP] = R[FP];", "", 0, 0, 0),
                                          Line("goto *(void*)MM[R[FP]];", "", 0, 0, 0),
                                          Line("", "", 0, 0, 0) >>))), stack)
    ELSE \* _parse_loop_statement, lines 995-1001
         Returned(Bind(Match(s, "keyword", "for"), LAMBDA m :
                    GenAll(m, << Line("goto loop_%d;", "", Top(stack).label, 0, 0),
                                 Line("endloop_%d:", "", Top(stack).label, 0, 0) >>)),
                  stack)

\* One iteration of a statement loop, up to the _match(';'): `end` ends the
\* loop of a body or of a for statement (`while not self._accept(...)`); the
\* loops of an if statement parse a statement first (`while True`)
_parse_statement ==
    /\ phase = "body"
    /\ ctl # <<>>
    /\ Top(ctl).pc \in {"stmts", "then", "else", "body"} /\ Top(ctl).sub = "try"
    /\ SetParser(
        With(IF Top(ctl).kind = "if" THEN [ParserNow EXCEPT !.ret = FALSE]
             ELSE Accept(ParserNow, "keyword", "end"), LAMBDA a :
            IF a.ret THEN EndLoop(a, ctl) ELSE ParseStatement(a, ctl)))

\* One iteration of the loop of Parser._resync_at_token('symbol', ';')
_resync_at_token ==
    /\ phase = "body"
    /\ ctl # <<>>
    /\ Top(ctl).sub = "resync"
    /\ SetParser(IF Check(ParserNow, "symbol", ";")
                 THEN Going(ParserNow, SetSub(ctl, "semi"))
                 ELSE Going(AdvanceToken(ParserNow), ctl))

\* _parse_if_statement, lines 936-942
EndIf(s, stack) ==
    Returned(Bind(Match(s, "keyword", "end"), LAMBDA m1 :
             Bind(Match(m1, "keyword", "if"), LAMBDA m2 :
                Gen(m2, Line("endif_%d:", "", Top(stack).label, 0, 0)))), stack)

\* What follows the _match(';') at the end of an iteration
AfterSemi(s, stack) ==
    IF Top(stack).kind = "for" /\ Top(stack).pc = "init"
    THEN \* _parse_loop_statement, lines 977-985
         With(GetLabelId(s), LAMBDA l :
         With(Bind(ParseExpression(Gen(l, Line("loop_%d:", "", l.label_id, 0, 0))),
                   LAMBDA e : Match(e, "symbol", ")")), LAMBDA m :
            IF ~Ok(m) THEN Unwound(m, stack)
            ELSE Going(Gen(m, Line("if (!R[%d]) goto endloop_%d;", "", m.reg, l.label_id, 0)),
                       SetTop(stack, Frame("for", "body", "try", "", l.label_id, 0)))))
    ELSE IF Top(stack).kind = "if" /\ Top(stack).pc = "then"
    THEN \* _parse_if_statement, lines 915-924
         IF Check(s, "keyword", "else") \/ Check(s, "keyword", "end")
         THEN With(Accept(GenAll(s, << Line("goto endif_%d;", "", Top(stack).label, 0, 0),
                                       Line("else_%d:", "", Top(stack).label, 0, 0) >>),
                          "keyword", "else"), LAMBDA a :
                IF a.ret
                THEN Going(a, SetTop(stack, [Top(stack) EXCEPT !.pc = "else", !.sub = "try"]))
                ELSE EndIf(a, stack))
         ELSE Going(s, SetSub(stack, "try"))
    ELSE IF Top(stack).kind = "if" /\ Top(stack).pc = "else"
    THEN IF Check(s, "keyword", "end") THEN EndIf(s, stack)
         ELSE Going(s, SetSub(stack, "try"))
    ELSE Going(s, SetSub(stack, "try"))

\* The _match('symbol', ';') that ends every iteration, and the code up to
\* the next iteration; its ParserSyntaxError leaves the method
match_semicolon ==
    /\ phase = "body"
    /\ ctl # <<>>
    /\ Top(ctl).sub = "semi"
    /\ SetParser(
        With(Match(ParserNow, "symbol", ";"), LAMBDA m :
            IF Ok(m) THEN AfterSemi(m, ctl) ELSE Unwound(m, ctl)))

\* CodeGenerator.commit: the buffer is written to the destination file
Commit(s) == [exists |-> TRUE, text |-> s.code]

\* rollback: the buffer is discarded and no file is written
Rollback(s) == [s EXCEPT !.code = <<>>]

\* A footer without the runtime procedures
GenerateFooterExitOnly(s) ==
    GenAll(s, << Line("%s", "", 0, 0, 0),
                 Line("%s", "// Jump to the program exit", 0, 0, 0),
                 Line("%s", "goto *(void*)MM[R[FP]];", 0, 0, 0),
                 Line("%s", "}", 0, 0, 0) >>)

\* CodeGenerator.generate_footer: the lines of the footer, one generate call
GenerateFooter(s) ==
    GenAll(s, <<
        Line("%s", "", 0, 0, 0),
        Line("%s", "// Jump to the program exit", 0, 0, 0),
        Line("%s", "goto *(void*)MM[R[FP]];", 0, 0, 0),
        Line("%s", "", 0, 0, 0),
        Line("%s", "////////////////////////////////////////////////////", 0, 0, 0),
        Line("%s", "// RUNTIME FUNCTIONS", 0, 0, 0),
        Line("%s", "", 0, 0, 0),
        Line("%s", "putString_1:", 0, 0, 0),
        Line("%s", "R[0] = MM[R[FP]+2];", 0, 0, 0),
        Line("%s", "printf(\"%s\\n\", (char*)R[0]);", 0, 0, 0),
        Line("%s", "R[0] = MM[R[FP]];", 0, 0, 0),
        Line("%s", "goto *(void*)R[0];", 0, 0, 0),
        Line("%s", "", 0, 0, 0),
        Line("%s", "getString_1:", 0, 0, 0),
        Line("%s", "fgets(STR_BUF, BUF_SIZE, stdin);", 0, 0, 0),
        Line("%s", "R[0] = strlen(STR_BUF) + 1;", 0, 0, 0),
        Line("%s", "memcpy(&MM[R[HP]], &STR_BUF, R[0]);", 0, 0, 0),
        Line("%s", "MM[R[FP]+2] = (int)((char*)&MM[R[HP]]);", 0, 0, 0),
        Line("%s", "R[HP] = R[HP] + R[0];", 0, 0, 0),
        Line("%s", "R[0] = MM[R[FP]];", 0, 0, 0),
        Line("%s", "goto *(void*)R[0];", 0, 0, 0),
        Line("%s", "", 0, 0, 0),
        Line("%s", "putBool_1:", 0, 0, 0),
        Line("%s", "R[0] = MM[R[FP]+2];", 0, 0, 0),
        Line("%s", "printf(\"%s\\n\", R[0] ? \"true\" : \"false\");", 0, 0, 0),
        Line("%s", "R[0] = MM[R[FP]];", 0, 0, 0),
        Line("%s", "goto *(void*)R[0];", 0, 0, 0),
        Line("%s", "", 0, 0, 0),
        Line("%s", "getBool_1:", 0, 0, 0),
        Line("%s", "scanf(\"%d\", &R[0]);", 0, 0, 0),
        Line("%s", "R[0] = R[0] ? 1 : 0;", 0, 0, 0),
        Line("%s", "MM[R[FP]+2] = R[0];", 0, 0, 0),
        Line("%s", "R[0] = MM[R[FP]];", 0, 0, 0),
        Line("%s", "goto *(void*)R[0];", 0, 0, 0),
        Line("%s", "", 0, 0, 0),
        Line("%s", "putInteger_1:", 0, 0, 0),
        Line("%s", "R[0] = MM[R[FP]+2];", 0, 0, 0),
        Line("%s", "printf(\"%d\\n\", R[0]);", 0, 0, 0),
        Line("%s", "R[0] = MM[R[FP]];", 0, 0, 0),
        Line("%s", "goto *(void*)R[0];", 0, 0, 0),
        Line("%s", "", 0, 0, 0),
        Line("%s", "getInteger_1:", 0, 0, 0),
        Line("%s", "scanf(\"%d\", &R[0]);", 0, 0, 0),
        Line("%s", "MM[R[FP]+2] = R[0];", 0, 0, 0),
        Line("%s", "R[0] = MM[R[FP]];", 0, 0, 0),
        Line("%s", "goto *(void*)R[0];", 0, 0, 0),
        Line("%s", "", 0, 0, 0),
        Line("%s", "putFloat_1:", 0, 0, 0),
        Line("%s", "R[0] = MM[R[FP]+2];", 0, 0, 0),
        Line("%s", "memcpy(&R_FLOAT_1, &R[0], sizeof(float));", 0, 0, 0),
        Line("%s", "printf(\"%g\\n\", R_FLOAT_1);", 0, 0, 0),
        Line("%s", "R[0] = MM[R[FP]];", 0, 0, 0),
        Line("%s", "goto *(void*)R[0];", 0, 0, 0),
        Line("%s", "", 0, 0, 0),
        Line("%s", "getFloat_1:", 0, 0, 0),
        Line("%s", "scanf(\"%f\", &R_FLOAT_1);", 0, 0, 0),
        Line("%s", "memcpy(&R[0], &R_FLOAT_1, sizeof(float));", 0, 0, 0),
        Line("%s", "MM[R[FP]+2] = R[0];", 0, 0, 0),
        Line("%s", "R[0] = MM[R[FP]];", 0, 0, 0),
        Line("%s", "goto *(void*)R[0];", 0, 0, 0),
        Line("%s", "}", 0, 0, 0) >>)

\* Parser.parse, lines 93-106: generate_footer, the warning for tokens after
\* `end program` (the call lacks the line argument: TypeError), then commit
\* or rollback
finish ==
    /\ phase = "footer"
    /\ SetParser(
        With(GenerateFooter(ParserNow), LAMBDA f :
            IF ~Check(f, "eof", None) THEN Ended(f, None, "TypeError", NoFile)
            ELSE IF ~f.has_errors THEN Ended(f, "True", NoExc, Commit(f))
            ELSE Ended(Rollback(f), "True", NoExc, NoFile)))

(***************************************************************************)
(* The sources parsed: the token streams of the programs                   *)
(*     program p is <declarations> begin <statements> <tail>               *)
(* built from at most MaxFrags of the declarations and statements below.   *)
(* Each source is one line of text, so every token is on line 1.           *)
(***************************************************************************)
MaxFrags == 3

Kw(v)  == Token("keyword", v, 1)
Sym(v) == Token("symbol", v, 1)
Id(v)  == Token("identifier", v, 1)
Num(v) == Token("integer", v, 1)

DeclFrags ==
    { \* global integer x ;
      <<Kw("global"), Kw("integer"), Id("x"), Sym(";")>>,
      \* integer x ;
      <<Kw("integer"), Id("x"), Sym(";")>>,
      \* procedure f ( integer n in ) integer x ; begin x := n ; end procedure ;
      <<Kw("procedure"), Id("f"), Sym("("), Kw("integer"), Id("n"), Kw("in"), Sym(")"),
        Kw("integer"), Id("x"), Sym(";"),
        Kw("begin"), Id("x"), Sym(":="), Id("n"), Sym(";"),
        Kw("end"), Kw("procedure"), Sym(";")>>,
      \* procedure g ( integer a in , integer b in ) begin end procedure ;
      <<Kw("procedure"), Id("g"), Sym("("), Kw("integer"), Id("a"), Kw("in"), Sym(","),
        Kw("integer"), Id("b"), Kw("in"), Sym(")"),
        Kw("begin"), Kw("end"), Kw("procedure"), Sym(";")>>,
      \* integer ;
      <<Kw("integer"), Sym(";")>> }

StmtFrags ==
    { \* x := 1 ;
      <<Id("x"), Sym(":="), Num("1"), Sym(";")>>,
      \* x := x + 1 ;
      <<Id("x"), Sym(":="), Id("x"), Sym("+"), Num("1"), Sym(";")>>,
      \* x := 1        (the ';' is missing)
      <<Id("x"), Sym(":="), Num("1")>>,
      \* f ( 1 ) ;
      <<Id("f"), Sym("("), Num("1"), Sym(")"), Sym(";")>>,
      \* f ( ) ;
      <<Id("f"), Sym("("), Sym(")"), Sym(";")>>,
      \* f ( 1 , 1 ) ;
      <<Id("f"), Sym("("), Num("1"), Sym(","), Num("1"), Sym(")"), Sym(";")>>,
      \* g ( 1 ) ;
      <<Id("g"), Sym("("), Num("1"), Sym(")"), Sym(";")>>,
      \* return ;
      <<Kw("return"), Sym(";")>>,
      \* if ( x == 1 ) then x := 1 ; end if ;
      <<Kw("if"), Sym("("), Id("x"), Sym("=="), Num("1"), Sym(")"), Kw("then"),
        Id("x"), Sym(":="), Num("1"), Sym(";"), Kw("end"), Kw("if"), Sym(";")>>,
      \* for ( x := 1 ; x < 2 ) x := 1 ; end for ;
      <<Kw("for"), Sym("("), Id("x"), Sym(":="), Num("1"), Sym(";"),
        Id("x"), Sym("<"), Num("2"), Sym(")"),
        Id("x"), Sym(":="), Num("1"), Sym(";"), Kw("end"), Kw("for"), Sym(";")>> }

Tails ==
    { \* end program
      <<Kw("end"), Kw("program")>>,
      \* end program x     (a token after the end of the program)
      <<Kw("end"), Kw("program"), Id("x")>>,
      \* the source ends inside the body
      <<>> }

RECURSIVE Flatten(_)
Flatten(seqs) == IF seqs = <<>> THEN <<>> ELSE Head(seqs) \o Flatten(Tail(seqs))

Program(decls, stmts, tail) ==
    <<Kw("program"), Id("p"), Kw("is")>> \o Flatten(decls) \o <<Kw("begin")>>
        \o Flatten(stmts) \o tail

\* The token streams of the sources of at most n declarations and statements
Programs(n) ==
    UNION {{Program(decls, stmts, tail) :
                decls \in [1..nd -> DeclFrags],
                stmts \in SeqsUpTo(StmtFrags, n - nd),
                tail \in Tails} : nd \in 0..n}

\* A new Parser, and one of the sources attached to it
ParseInit ==
    /\ toks \in Programs(MaxFrags)
    /\ ParserNew
    /\ TableIdle
    /\ TableOpIdle
    /\ ScanIdle

ParseNext ==
    \/ parse
    \/ _parse_declaration
    \/ _parse_statement
    \/ _resync_at_token
    \/ match_semicolon
    \/ finish

ParseSpec == ParseInit /\ [][ParseNext]_vars

(***************************************************************************)
(* The sources with parameters of both directions                          *)
(*     program p is global integer x ; <procedures> begin <statements>     *)
(*     end program                                                         *)
(* built from at most MaxFrags of the procedures and statements below.     *)
(***************************************************************************)
\* The token streams of the sources with parameters, of at most n procedures
\* and statements
ProcPrograms(n) ==
    LET \* procedure <name> ( <params> ) begin <body> end procedure ;
        Procedure(name, params, body) ==
            <<Kw("procedure"), Id(name), Sym("(")>> \o params \o <<Sym(")"), Kw("begin")>>
                \o body \o <<Kw("end"), Kw("procedure"), Sym(";")>>
        \* integer <name> <direction>
        Param(name, direction) == <<Kw("integer"), Id(name), Kw(direction)>>
        \* <destination> := <name or number> ;
        Assign(dest, value) == <<Id(dest), Sym(":="), value, Sym(";")>>
        \* <name> ( <arguments> ) ;
        Call(name, args) == <<Id(name), Sym("(")>> \o args \o <<Sym(")"), Sym(";")>>
        ProcDeclFrags ==
            { \* procedure q ( integer r out ) begin r := 1 ; end procedure ;
              Procedure("q", Param("r", "out"), Assign("r", Num("1"))),
              \* procedure q ( integer r out ) begin x := r ; r := 1 ; end procedure ;
              Procedure("q", Param("r", "out"),
                        Assign("x", Id("r")) \o Assign("r", Num("1"))),
              \* procedure f ( integer n in ) begin x := n ; end procedure ;
              Procedure("f", Param("n", "in"), Assign("x", Id("n"))),
              \* procedure f ( integer n in ) begin n := 1 ; x := n ; end procedure ;
              Procedure("f", Param("n", "in"),
                        Assign("n", Num("1")) \o Assign("x", Id("n"))),
              \* procedure g ( integer a in , integer b out ) begin b := a ; end procedure ;
              Procedure("g", Param("a", "in") \o <<Sym(",")>> \o Param("b", "out"),
                        Assign("b", Id("a"))) }
        ProcStmtFrags ==
            { Call("q", <<Id("x")>>),                          \* q ( x ) ;
              Call("q", <<Num("1"), Sym("+"), Num("2")>>),      \* q ( 1 + 2 ) ;
              Call("q", <<Id("x"), Sym("+"), Num("2")>>),       \* q ( x + 2 ) ;
              Call("f", <<Num("1")>>),                          \* f ( 1 ) ;
              Call("g", <<Num("1"), Sym(","), Id("x")>>),       \* g ( 1 , x ) ;
              Call("putInteger", <<Id("x")>>),                  \* putInteger ( x ) ;
              Call("getInteger", <<Id("x")>>),                  \* getInteger ( x ) ;
              Assign("x", Num("1")) }                           \* x := 1 ;
    IN  UNION {{ <<Kw("program"), Id("p"), Kw("is"),
                   Kw("global"), Kw("integer"), Id("x"), Sym(";")>>
                 \o Flatten(decls) \o <<Kw("begin")>> \o Flatten(stmts)
                 \o <<Kw("end"), Kw("program")>> :
                    decls \in [1..nd -> ProcDeclFrags],
                    stmts \in SeqsUpTo(ProcStmtFrags, n - nd) } :
               nd \in 0..n}

\* A new Parser, and one of the sources with parameters attached to it
ProcInit ==
    /\ toks \in ProcPrograms(MaxFrags)
    /\ ParserNew
    /\ TableIdle
    /\ TableOpIdle
    /\ ScanIdle

ProcSpec == ProcInit /\ [][ParseNext]_vars

(***************************************************************************)
(* The sources with variables of three types, if and for statements and    *)
(* calls                                                                   *)
(*     program p is global integer x ; bool b ; float y ; <procedure>      *)
(*     begin <statements> end program                                      *)
(* built from one of the two procedures and at most MaxFrags - 1 of the    *)
(* twelve statements below, each chosen by its number.                     *)
(***************************************************************************)
FlowProgram(decl, stmts) ==
    LET Float(v) == Token("float", v, 1)
        \* <destination> := <expression> ;
        Assign(dest, expr) == <<Id(dest), Sym(":=")>> \o expr \o <<Sym(";")>>
        \* if ( b ) then <statements> end if ;
        If(then) == <<Kw("if"), Sym("("), Id("b"), Sym(")"), Kw("then")>> \o then
                        \o <<Kw("end"), Kw("if"), Sym(";")>>
        \* if ( b ) then <statements> else <statements> end if ;
        IfElse(then, else) ==
            <<Kw("if"), Sym("("), Id("b"), Sym(")"), Kw("then")>> \o then
                \o <<Kw("else")>> \o else \o <<Kw("end"), Kw("if"), Sym(";")>>
        \* procedure f ( integer n in ) begin <body> end procedure ;
        F(body) == <<Kw("procedure"), Id("f"), Sym("("), Kw("integer"), Id("n"), Kw("in"),
                     Sym(")"), Kw("begin")>> \o body
                        \o <<Kw("end"), Kw("procedure"), Sym(";")>>
        FlowDeclFrags ==
            << F(Assign("x", <<Id("n")>>)),          \* ... begin x := n ; end ...
              F(Assign("n", <<Num("1")>>)) >>        \* ... begin n := 1 ; end ...
        FlowStmtFrags ==
            << Assign("x", <<Num("1")>>),                         \* x := 1 ;
              Assign("x", <<Kw("true")>>),                       \* x := true ;
              Assign("b", <<Id("x")>>),                          \* b := x ;
              Assign("y", <<Float("1.5")>>),                     \* y := 1.5 ;
              Assign("x", <<Id("y")>>),                          \* x := y ;
              Assign("x", <<Id("x"), Sym("+"), Num("1")>>),      \* x := x + 1 ;
              \* if ( b ) then x := 1 ; end if ;
              If(Assign("x", <<Num("1")>>)),
              \* if ( b ) then x := 1 ; else x := 2 ; end if ;
              IfElse(Assign("x", <<Num("1")>>), Assign("x", <<Num("2")>>)),
              \* if ( b ) then if ( b ) then x := 1 ; else x := true ; end if ;
              \* else y := 1.5 ; end if ;
              IfElse(IfElse(Assign("x", <<Num("1")>>), Assign("x", <<Kw("true")>>)),
                     Assign("y", <<Float("1.5")>>)),
              \* if ( b ) then if ( b ) then x := 1 ; end if ; x := 2 ; end if ;
              If(If(Assign("x", <<Num("1")>>)) \o Assign("x", <<Num("2")>>)),
              \* for ( x := 1 ; x < 2 ) putInteger ( x ) ; end for ;
              <<Kw("for"), Sym("("), Id("x"), Sym(":="), Num("1"), Sym(";"),
                Id("x"), Sym("<"), Num("2"), Sym(")"),
                Id("putInteger"), Sym("("), Id("x"), Sym(")"), Sym(";"),
                Kw("end"), Kw("for"), Sym(";")>>,
              \* f ( 1 ) ;
              <<Id("f"), Sym("("), Num("1"), Sym(")"), Sym(";")>> >>
    IN  <<Kw("program"), Id("p"), Kw("is"),
          Kw("global"), Kw("integer"), Id("x"), Sym(";"),
          Kw("bool"), Id("b"), Sym(";"), Kw("float"), Id("y"), Sym(";")>>
        \o FlowDeclFrags[decl] \o <<Kw("begin")>>
        \o Flatten([k \in 1..Len(stmts) |-> FlowStmtFrags[stmts[k]]])
        \o <<Kw("end"), Kw("program")>>

\* A new Parser, and one of the sources with typed variables attached to it
FlowInit ==
    /\ \E decl \in 1..2, stmts \in SeqsUpTo(1..12, MaxFrags - 1) :
            toks = FlowProgram(decl, stmts)
    /\ ParserNew
    /\ TableIdle
    /\ TableOpIdle
    /\ ScanIdle

FlowSpec == FlowInit /\ [][ParseNext]_vars

(***************************************************************************)
(* _parse_expression as a function of the tokens: the expressions          *)
(*     <operand> { <operator> <operand> }                                  *)
(* of at most MaxOps of the twelve binary operators, over a literal of     *)
(* each type.                                                              *)
(***************************************************************************)
MaxOps == 2

\* The tokens of the expressions of at most n operators
ExprTokens(n) ==
    { <<first>> \o Flatten(rest) :
        first \in {Num("1"), Token("float", "1.5", 1), Kw("true"), Token("string", "s", 1)},
        rest \in SeqsUpTo({ <<Sym(op), operand>> :
                              op \in UNION {OpsOf(level) : level \in {"expr", "arith", "rel", "term"}},
                              operand \in {Num("1"), Token("float", "1.5", 1), Kw("true"),
                                           Token("string", "s", 1)} },
                          n) }

\* A new Parser, and the tokens of one of the expressions
ExprInit ==
    /\ toks \in ExprTokens(MaxOps)
    /\ ParserNew
    /\ TableIdle
    /\ TableOpIdle
    /\ ScanIdle

\* The first two tokens read as parse does (lines 75-76), then one call of
\* Parser._parse_expression: the type it returns, or the exception it raises
_parse_expression ==
    /\ phase = "new"
    /\ SetParser(With(ParseExpression(AdvanceToken(AdvanceToken(ParserNow))), LAMBDA r :
                    Ended(r, IF Ok(r) THEN r.ret ELSE None, r.exc, NoFile)))

ExprSpec == ExprInit /\ [][_parse_expression]_vars

\* The tokens of the expressions [ not ] <operand> { <operator> <operand> }
\* of at most n of the operators & | +
NotTokens(n) ==
    { prefix \o <<first>> \o Flatten(rest) :
        prefix \in {<< >>, <<Kw("not")>>},
        first \in {Num("1"), Kw("true"), Token("float", "1.5", 1)},
        rest \in SeqsUpTo({ <<Sym(op), operand>> :
                              op \in {"&", "|", "+"},
                              operand \in {Num("1"), Kw("true"), Token("float", "1.5", 1)} },
                          n) }

\* A new Parser, and the tokens of one of the expressions with or without not
NotInit ==
    /\ toks \in NotTokens(MaxOps)
    /\ ParserNew
    /\ TableIdle
    /\ TableOpIdle
    /\ ScanIdle

NotSpec == NotInit /\ [][_parse_expression]_vars

(***************************************************************************)
(* Several compilations in one process: when parse has ended, a new Parser *)
(* is made and a source attached to it, at most MaxRuns times in all.  The *)
(* objects of the first Parser are garbage; the two default lists belong   *)
(* to the functions and stay.                                              *)
(***************************************************************************)
MaxRuns == 2

\* The sources compiled one after another
RunPrograms ==
    { \* program p is global integer x ; begin <statement> end program
      <<Kw("program"), Id("p"), Kw("is"), Kw("global"), Kw("integer"), Id("x"), Sym(";"),
        Kw("begin")>> \o stmt \o <<Kw("end"), Kw("program")>> :
          stmt \in { <<Id("x"), Sym(":="), Num("1"), Sym(";")>>,
                     <<Id("x"), Sym(":="), Kw("true"), Sym(";")>>,
                     <<Id("putInteger"), Sym("("), Id("x"), Sym(")"), Sym(";")>>,
                     <<Id("getInteger"), Sym("("), Id("x"), Sym(")"), Sym(";")>> } }
    \cup
    { \* program p is global integer x ;
      \* procedure f ( integer n in ) begin x := n ; end procedure ;
      \* begin <statement> end program
      <<Kw("program"), Id("p"), Kw("is"), Kw("global"), Kw("integer"), Id("x"), Sym(";"),
        Kw("procedure"), Id("f"), Sym("("), Kw("integer"), Id("n"), Kw("in"), Sym(")"),
        Kw("begin"), Id("x"), Sym(":="), Id("n"), Sym(";"),
        Kw("end"), Kw("procedure"), Sym(";"),
        Kw("begin")>> \o stmt \o <<Kw("end"), Kw("program")>> :
          stmt \in { <<Id("x"), Sym(":="), Num("1"), Sym(";")>>,
                     <<Id("f"), Sym("("), Num("1"), Sym(")"), Sym(";")>> } }

\* Parser() and attach_source, after the parse of an earlier Parser
__init__ ==
    /\ phase = "done"
    /\ Len(compiled) < MaxRuns - 1
    /\ compiled' = Append(compiled, [toks |-> toks, errors |-> errors, file |-> dest_file])
    /\ toks' \in RunPrograms
    /\ pos' = 0
    /\ previous' = NoToken
    /\ current' = NoToken
    /\ future' = NoToken
    /\ has_errors' = FALSE
    /\ errors' = <<>>
    /\ reg' = 4
    /\ label_id' = 0
    /\ unique_id' = 0
    /\ local_ptr' = 1
    /\ param_ptr' = 1
    /\ code' = <<>>
    /\ ctl' = <<>>
    /\ phase' = "new"
    /\ parse_ret' = None
    /\ parse_exc' = NoExc
    /\ dest_file' = NoFile
    /\ ids' = NewTable.scopes
    /\ owner_ids' = NewTable.owners
    /\ UNCHANGED <<default_params, default_out_names, scanvars, tableopvars>>

RunInit ==
    /\ toks \in RunPrograms
    /\ ParserNew
    /\ TableIdle
    /\ TableOpIdle
    /\ ScanIdle

RunSpec == RunInit /\ [][ParseNext \/ __init__]_vars

(***************************************************************************)
(* The sources with several variables, procedures without parameters and   *)
(* calls                                                                   *)
(*     program p is <declarations> begin f ( ) ; ... f ( ) ; end program   *)
(* built from at most MaxFrags of the five declarations below, each chosen *)
(* by its number, and at most MaxFrags calls of f.                         *)
(***************************************************************************)
LayoutProgram(decls, calls) ==
    LET \* procedure <name> ( ) begin end procedure ;
        Procedure(name) ==
            <<Kw("procedure"), Id(name), Sym("("), Sym(")"), Kw("begin"),
              Kw("end"), Kw("procedure"), Sym(";")>>
        LayoutDeclFrags ==
            << <<Kw("integer"), Id("x"), Sym(";")>>,              \* integer x ;
              <<Kw("integer"), Id("y"), Sym(";")>>,              \* integer y ;
              \* integer z [ 2 ] ;
              <<Kw("integer"), Id("z"), Sym("["), Num("2"), Sym("]"), Sym(";")>>,
              Procedure("f"),
              Procedure("f_2") >>
    IN  <<Kw("program"), Id("p"), Kw("is")>>
        \o Flatten([k \in 1..Len(decls) |-> LayoutDeclFrags[decls[k]]])
        \o <<Kw("begin")>>
        \o Flatten([k \in 1..calls |-> <<Id("f"), Sym("("), Sym(")"), Sym(";")>>])
        \o <<Kw("end"), Kw("program")>>

\* A new Parser, and one of these sources attached to it
LayoutInit ==
    /\ \E decls \in SeqsUpTo(1..5, MaxFrags), calls \in 0..MaxFrags :
            toks = LayoutProgram(decls, calls)
    /\ ParserNew
    /\ TableIdle
    /\ TableOpIdle
    /\ ScanIdle

LayoutSpec == LayoutInit /\ [][ParseNext]_vars

(***************************************************************************)
(* The long sources                                                        *)
(*     program p is integer x ; begin <statement> ... <statement>          *)
(*     end program                                                         *)
(* of one or of MaxStmts copies of one of the two statements below: every  *)
(* copy of the first takes sixteen new registers from get_reg.             *)
(***************************************************************************)
MaxStmts == 128

LongProgram(frag, n) ==
    LET LongStmtFrags ==
            << \* x := 1 + 1 + 1 + 1 + 1 + 1 + 1 + 1 ;
               <<Id("x"), Sym(":="), Num("1"), Sym("+"), Num("1"), Sym("+"), Num("1"),
                 Sym("+"), Num("1"), Sym("+"), Num("1"), Sym("+"), Num("1"),
                 Sym("+"), Num("1"), Sym("+"), Num("1"), Sym(";")>>,
               \* x := y ;
               <<Id("x"), Sym(":="), Id("y"), Sym(";")>> >>
    IN  <<Kw("program"), Id("p"), Kw("is"), Kw("integer"), Id("x"), Sym(";"), Kw("begin")>>
        \o [k \in 1..(n * Len(LongStmtFrags[frag])) |->
                LongStmtFrags[frag][((k - 1) % Len(LongStmtFrags[frag])) + 1]]
        \o <<Kw("end"), Kw("program")>>

\* A new Parser, and one of the long sources attached to it
LongInit ==
    /\ \E frag \in 1..2, n \in {1, MaxStmts} : toks = LongProgram(frag, n)
    /\ ParserNew
    /\ TableIdle
    /\ TableOpIdle
    /\ ScanIdle

LongSpec == LongInit /\ [][ParseNext]_vars

(***************************************************************************)
(* Claims about the scanner                                                *)
(***************************************************************************)
\* C3: once next_token has returned an eof token, every later call of
\* next_token returns an eof token too.
C3_EofIsIdempotent == [][tok.type = "eof" => tok'.type = "eof"]_vars

\* C4: for every loaded source, a call of next_token returns a token and
\* never fails with an exception.
C4_NextTokenNeverRaises == scan_exc = NoExc

C6_AddNeverRedeclares ==
    [][/\ (t_op'.op = "add" /\ <<ids, t_op, t_exc>> # <<ids', t_op', t_exc'>>) =>
            LET chosen == IF t_op'.is_global THEN ids[1] ELSE ids[Len(ids)]
            IN  t_op'.name \in DOMAIN chosen =>
                    (t_exc' = "ParserNameError" /\ ids' = ids)
       /\ \A i \in 1..Len(ids) : i <= Len(ids') =>
            \A n \in DOMAIN ids[i] : n \in DOMAIN ids'[i] /\ ids'[i][n] = ids[i][n]
      ]_vars

\* An add of a record that differs from the one the current scope holds
\* under the same name has failed.
C6_Witness ==
    /\ t_op.op = "add"
    /\ ~t_op.is_global
    /\ t_exc = "ParserNameError"
    /\ t_op.name \in DOMAIN ids[Len(ids)]
    /\ ids[Len(ids)][t_op.name].mm_ptr # t_op.mm_ptr

(***************************************************************************)
(* Claims about the parser and the code generator                          *)
(***************************************************************************)
\* C1: the buffer is written to the destination file if and only if no
\* syntax, name, type or runtime error was recorded during the parse: no
\* file exists while the error flag is set, and a parse that has ended has
\* written the file exactly when the flag is clear.
C1_CommitIffNoError ==
    /\ has_errors => ~dest_file.exists
    /\ phase = "done" => (dest_file.exists <=> ~has_errors)

\* C2: parse terminates: the skip-to-';' loop of _resync_at_token is never
\* in a state in which an iteration finds no ';' and changes nothing, which
\* is a state the loop never leaves.
C2_ResyncTerminates ==
    ~(/\ phase = "body"
      /\ ctl # <<>>
      /\ Top(ctl).sub = "resync"
      /\ ~Check(ParserNow, "symbol", ";")
      /\ AdvanceToken(ParserNow) = ParserNow)

DeclaredTypeOf(name) ==
    CHOOSE t \in {"integer", "float", "bool", "string"} :
        \E k \in 1..(Len(toks) - 1) : toks[k] = Kw(t) /\ toks[k + 1] = Id(name)

\* The type of an operand that is one token
OperandTypeOf(token) ==
    IF token.type = "identifier" THEN DeclaredTypeOf(token.value)
    ELSE IF token \in {Kw("true"), Kw("false")} THEN "bool"
    ELSE token.type

\* The parser is about to parse the assignment D := E whose destination is
\* the token at position d, as a statement of a body, of an if statement or
\* of a for statement, or as the assignment in the parentheses of `for`; E is
\* one operand, or the sum of two operands that are numbers
AssignmentAt(d) ==
    /\ phase = "body"
    /\ ctl # <<>>
    /\ Top(ctl).sub = "try"
    /\ Top(ctl).pc \in {"stmts", "then", "else", "body"}
    /\ ~(Top(ctl).kind # "if" /\ Check(ParserNow, "keyword", "end"))
    /\ \/ d = pos - 1 /\ Check(ParserNow, "identifier", None)
       \/ d = pos + 1 /\ Check(ParserNow, "keyword", "for") /\ toks[pos] = Sym("(")
    /\ d + 3 <= Len(toks)
    /\ toks[d].type = "identifier"
    /\ toks[d + 1] = Sym(":=")
    /\ \/ toks[d + 3] = Sym(";")
       \/ /\ d + 5 <= Len(toks)
          /\ toks[d + 3] = Sym("+")
          /\ toks[d + 5] = Sym(";")
          /\ OperandTypeOf(toks[d + 2]) \in {"integer", "float"}
          /\ OperandTypeOf(toks[d + 4]) \in {"integer", "float"}

\* The step records one type error and sets the error flag when the declared
\* type of the destination at d differs from the type of the (left) operand
\* of the expression, and records nothing when they are the same
TypeErrorIffTypesDiffer(d) ==
    IF DeclaredTypeOf(toks[d].value) # OperandTypeOf(toks[d + 2])
    THEN errors' = Append(errors, "type") /\ has_errors'
    ELSE errors' = errors

\* The name is a parameter written 'in' in a procedure header
WrittenIn(name) ==
    \E k \in 1..(Len(toks) - 1) : toks[k] = Id(name) /\ toks[k + 1] = Kw("in")

LevelOf(op) ==
    IF op \in {"&", "|"} THEN 1
    ELSE IF op \in {"+", "-"} THEN 2
    ELSE IF op \in {"*", "/"} THEN 4
    ELSE 3

\* The types the operator is allowed on
AllowedFor(op) ==
    IF op \in {"+", "-", "*", "/"} THEN {"integer", "float"} ELSE {"integer", "bool"}

\* The operator at position i of the expression in toks is applied to an
\* operand whose type is outside its allowed set.  Its right operand starts
\* with the token after it; its left operand starts after the nearest
\* operator to its left that binds looser, or with the first token; the
\* type of an operand is the type of its leftmost literal
BadApplication(i) ==
    LET left == IF \E k \in 1..(i - 1) :
                       toks[k].type = "symbol" /\ LevelOf(toks[k].value) < LevelOf(toks[i].value)
                THEN 1 + CHOOSE k \in 1..(i - 1) :
                        /\ toks[k].type = "symbol"
                        /\ LevelOf(toks[k].value) < LevelOf(toks[i].value)
                        /\ \A m \in (k + 1)..(i - 1) :
                              ~(toks[m].type = "symbol"
                                /\ LevelOf(toks[m].value) < LevelOf(toks[i].value))
                ELSE 1
    IN  \/ OperandTypeOf(toks[left]) \notin AllowedFor(toks[i].value)
        \/ OperandTypeOf(toks[i + 1]) \notin AllowedFor(toks[i].value)

TargetsOf(l) ==
    CASE l.fmt = "goto %s_%d;" -> {l.s \o "_" \o ToString(l.a)}
      [] l.fmt = "goto %s_%d_begin;" -> {l.s \o "_" \o ToString(l.a) \o "_begin"}
      [] l.fmt = "MM[R[FP]] = (int)&&%s_%d_end;" -> {l.s \o "_" \o ToString(l.a) \o "_end"}
      [] l.fmt = "MM[R[SP]] = (int)&&%s_%d_%d;" ->
            {l.s \o "_" \o ToString(l.a) \o "_" \o ToString(l.b)}
      [] l.fmt = "if (!R[%d]) goto else_%d;" -> {"else_" \o ToString(l.b)}
      [] l.fmt = "if (!R[%d]) goto endloop_%d;" -> {"endloop_" \o ToString(l.b)}
      [] l.fmt = "goto endif_%d;" -> {"endif_" \o ToString(l.a)}
      [] l.fmt = "goto loop_%d;" -> {"loop_" \o ToString(l.a)}
      [] OTHER -> {}

\* The text of a generated line that is a label definition ("" for the
\* lines with parameters that are none)
LabelLineOf(l) ==
    CASE l.fmt = "%s" -> l.s
      [] l.fmt = "%s_%d:" -> l.s \o "_" \o ToString(l.a) \o ":"
      [] l.fmt = "%s_%d_begin:" -> l.s \o "_" \o ToString(l.a) \o "_begin:"
      [] l.fmt = "%s_%d_end:" -> l.s \o "_" \o ToString(l.a) \o "_end:"
      [] l.fmt = "%s_%d_%d:" -> l.s \o "_" \o ToString(l.a) \o "_" \o ToString(l.b) \o ":"
      [] l.fmt = "else_%d:" -> "else_" \o ToString(l.a) \o ":"
      [] l.fmt = "endif_%d:" -> "endif_" \o ToString(l.a) \o ":"
      [] l.fmt = "loop_%d:" -> "loop_" \o ToString(l.a) \o ":"
      [] l.fmt = "endloop_%d:" -> "endloop_" \o ToString(l.a) \o ":"
      [] OTHER -> ""

HeaderOf(proc) ==
    CHOOSE d \in 1..Len(toks) : toks[d] = Kw("procedure") /\ toks[d + 1] = Id(proc)

\* The number of parameters written in the header, and the name of the i-th
NumParams(proc) ==
    CHOOSE k \in 1..Len(toks) : toks[HeaderOf(proc) + 4 * k + 2] = Sym(")")
ParamName(proc, i) == toks[HeaderOf(proc) + 4 * i].value

\* The step has parsed a whole statement, and no error was recorded so far
StatementParsed ==
    /\ errors' = <<>>
    /\ phase' = "body"
    /\ ctl' # <<>>
    /\ Top(ctl').sub = "semi"

\* The call of a declared procedure, each argument one token, pushes the
\* i-th argument into the cell FP + off + i of the frame it sets up, and
\* stores the return address at FP
CallerFrame(off) ==
    (/\ phase = "body"
     /\ ctl # <<>>
     /\ Top(ctl).sub = "try"
     /\ Top(ctl).pc \in {"stmts", "then", "else", "body"}
     /\ Check(ParserNow, "identifier", None)
     /\ CheckFuture(ParserNow, "symbol", "(")
     /\ \E d \in 1..Len(toks) : toks[d] = Kw("procedure") /\ toks[d + 1] = current
     /\ toks[pos + 2 * NumParams(current.value)] = Sym(")")
     /\ StatementParsed)
    => LET new == SubSeq(code', Len(code) + 1, Len(code'))
           \* the register the i-th argument was evaluated into
           RegOf(i) ==
               LET arg == toks[pos + 2 * i - 1] IN
               (CHOOSE l \in {new[j] : j \in 1..Len(new)} :
                    IF arg.type = "integer"
                    THEN l.fmt = "R[%d] = %s;" /\ l.s = arg.value
                    ELSE l.fmt = "R[%d] = MM[R[%d]];").a
       IN  \A i \in 1..NumParams(current.value) :
              \E j, f \in 1..(Len(new) - 1) :
                 /\ j < f
                 /\ new[j] = Line("MM[R[SP]] = R[%d];", "", RegOf(i), 0, 0)
                 /\ new[f] = Line("R[FP] = R[SP];", "", 0, 0, 0)
                 /\ new[f + 1].fmt = "MM[R[SP]] = (int)&&%s_%d_%d;"
                 /\ \A m \in j..f : new[m] # Line("R[SP] = R[SP] + 1;", "", 0, 0, 0)
                 /\ Cardinality({m \in j..f : new[m] = Line("R[SP] = R[SP] - 1;", "", 0, 0, 0)})
                        = off + i

\* An assignment in the body of a procedure addresses the i-th parameter of
\* the header, read or written, as FP + off + i; and putInteger reads its
\* parameter from FP + off + 1
CalleeFrame(off) ==
    /\ (/\ phase = "body"
        /\ ctl # <<>>
        /\ Top(ctl).kind = "procedure"
        /\ Top(ctl).sub = "try"
        /\ Top(ctl).pc = "stmts"
        /\ Check(ParserNow, "identifier", None)
        /\ CheckFuture(ParserNow, "symbol", ":=")
        /\ StatementParsed)
       => LET new == SubSeq(code', Len(code) + 1, Len(code'))
              proc == Top(ctl).name
          IN  \A i \in 1..NumParams(proc) :
                 (ParamName(proc, i) \in {current.value, toks[pos + 1].value})
                 => \E j \in 1..(Len(new) - 1) :
                       /\ new[j].fmt = "R[%d] = %d;"
                       /\ new[j + 1] = Line("R[%d] = R[FP] + 1 + R[%d];", "",
                                            new[j].a, new[j].a, 0)
                       /\ 1 + new[j].b = off + i
    /\ dest_file'.exists
       => \A k \in 1..(Len(dest_file'.text) - 1) :
             dest_file'.text[k].s = "putInteger_1:"
             => dest_file'.text[k + 1].s = "R[0] = MM[R[FP]+" \o ToString(off + 1) \o "];"

IfShape(c, stack, errs) ==
    LET IsIf(l) == l.fmt = "if (!R[%d]) goto else_%d;"
        At(fmt, L) == {k \in 1..Len(c) : c[k].fmt = fmt /\ c[k].a = L}
        Gotos(L) == At("goto endif_%d;", L)
        Elses(L) == At("else_%d:", L)
        Ends(L) == At("endif_%d:", L)
        Open(L) == \E f \in 1..Len(stack) : stack[f].kind = "if" /\ stack[f].label = L
    IN  /\ \A i \in 1..Len(c) :
              IsIf(c[i]) =>
                LET L == c[i].b IN
                /\ \A k \in 1..Len(c) : (IsIf(c[k]) /\ c[k].b = L) => k = i
                /\ i > 1
                /\ c[i - 1] = Line("R[%d] = MM[R[%d]];", "", c[i].a, c[i].a, 0)
                /\ Cardinality(Gotos(L)) <= 1
                /\ Cardinality(Ends(L)) <= 1
                /\ \A g \in Gotos(L) : g > i + 1
                /\ Elses(L) = {g + 1 : g \in Gotos(L)}
                /\ \A d \in Ends(L) : \E e \in Elses(L) : d > e
                /\ (errs = <<>> /\ ~Open(L)) => Ends(L) # {}
                /\ \A i2 \in (i + 1)..Len(c) :
                      IsIf(c[i2]) =>
                        \/ \E d \in Ends(L) : d < i2
                        \/ /\ \A g \in Gotos(L) : \E d2 \in Ends(c[i2].b) : d2 < g
                           /\ Gotos(L) = {} => Open(L)
                        \/ /\ \E e \in Elses(L) : e < i2
                           /\ \A d \in Ends(L) : \E d2 \in Ends(c[i2].b) : d2 < d
        /\ \A f \in 1..Len(stack) :
              stack[f].kind = "if" =>
                /\ \E i \in 1..Len(c) : IsIf(c[i]) /\ c[i].b = stack[f].label
                /\ Ends(stack[f].label) = {}
                /\ stack[f].pc = "then" => Gotos(stack[f].label) = {}
                /\ stack[f].pc = "else" => Elses(stack[f].label) # {}

SpecifiedSymbols == symbols \ {"!", "="}

\* C21: every token of type symbol that next_token returns has its value in
\* the specified symbol set; a "!" or "=" that is not part of a two-character
\* symbol is never returned as a symbol token.
C21_SymbolsAreSpecified == tok.type = "symbol" => tok.value \in SpecifiedSymbols

\* C22: when parse has returned, it has returned True exactly when no error
\* was recorded and the output was committed; it has returned False whenever
\* an error was recorded.
C22_ParseReturnsSuccess ==
    phase = "done" /\ parse_exc = NoExc
    => (parse_ret = "True" <=> ~has_errors /\ dest_file.exists)

\* C23: warnings never block output: when _parse_program has returned with
\* the error flag clear, the rest of parse (the footer, the warning for
\* tokens left after `end program`, the commit) leaves the flag clear and
\* commits the output.
C23_WarningsNeverBlock ==
    [][phase = "footer" /\ ~has_errors => ~has_errors' /\ dest_file'.exists]_vars

\* C24: every jump through MM[R[FP]] that the parser emits, for a return
\* statement or at the end of a procedure body, comes right after the line
\* that sets R[SP] to R[FP].
C24_ReturnResetsSP ==
    \A i \in 1..Len(code) :
        code[i].fmt = "goto *(void*)MM[R[FP]];"
        => i > 1 /\ code[i - 1].fmt = "R[SP] = R[FP];"

\* C25: scope pushes and pops are balanced around every entry of the
\* program's declaration list: whenever the loop of _parse_program_body is
\* about to take its next entry, the scope stack is as it was before the
\* first one, the global scope and the program's, with the program as the
\* owner of the current scope.
C25_ScopesBalanced ==
    (/\ phase = "body"
     /\ Len(ctl) = 1
     /\ Top(ctl).kind = "program"
     /\ Top(ctl).pc = "decls"
     /\ Top(ctl).sub = "try")
    => /\ Len(ids) = 2
       /\ Len(owner_ids) = 2
       /\ owner_ids[2] = Top(ctl).name

\* The variables that scope i of the stack holds
VariablesOf(i) == {n \in DOMAIN ids[i] : ids[i][n].type \in ValueTypes}

\* The frame offsets [mm_ptr, mm_ptr + size) of the variable n of scope i
RangeOf(i, n) ==
    LET id == ids[i][n]
    IN  id.mm_ptr .. (id.mm_ptr + (IF id.size = None THEN 1 ELSE StrToInt(id.size)) - 1)

RECURSIVE Effect(_, _, _)
Effect(lines, i, m) ==
    IF i > Len(lines) THEN m
    ELSE LET fmt == lines[i].fmt IN
         Effect(lines, i + 1,
            IF fmt = "R[SP] = R[SP] - 1;" THEN [m EXCEPT !.sp = @ - 1]
            ELSE IF fmt = "R[SP] = R[SP] + 1;" THEN [m EXCEPT !.sp = @ + 1]
            ELSE IF fmt = "R[SP] = R[SP] - %d;" THEN [m EXCEPT !.sp = @ - lines[i].a]
            ELSE IF fmt = "R[FP] = R[SP];" THEN [m EXCEPT !.fp = <<"slot", m.sp>>]
            ELSE IF fmt = "R[FP] = MM[R[SP]];"
                 THEN [m EXCEPT !.fp = IF m.sp \in DOMAIN m.mm THEN m.mm[m.sp]
                                       ELSE <<"unknown">>]
            ELSE IF fmt = "MM[R[SP]] = R[FP];"
                 THEN [m EXCEPT !.mm = DictSet(@, m.sp, m.fp)]
            ELSE IF fmt \in {"MM[R[SP]] = (int)&&%s_%d_%d;", "MM[R[SP]] = R[%d];"}
                 THEN [m EXCEPT !.mm = DictSet(@, m.sp, <<"value">>)]
            ELSE IF fmt = "goto %s_%d;"
                 THEN [m EXCEPT !.sp = IF m.fp[1] = "slot" THEN m.fp[2] ELSE @]
            ELSE m)

\* The lines a step has appended to the buffer
Appended == SubSeq(code', Len(code) + 1, Len(code'))

\* A step of the statement loop takes a procedure call, records no error
\* and the parse goes on
CallTaken ==
    /\ phase = "body"
    /\ ctl # <<>>
    /\ Top(ctl).sub = "try"
    /\ Top(ctl).pc \in {"stmts", "then", "else", "body"}
    /\ Check(ParserNow, "identifier", None)
    /\ CheckFuture(ParserNow, "symbol", "(")
    /\ phase' = "body"
    /\ errors' = errors

IsLabelDefinition(l) ==
    \/ l.fmt \in {"%s_%d:", "%s_%d_begin:", "%s_%d_end:", "%s_%d_%d:",
                  "else_%d:", "endif_%d:", "loop_%d:", "endloop_%d:"}
    \/ l.fmt = "%s" /\ \E f \in runtime_functions : l.s = f[1] \o "_1:"

\* C28: no label is defined twice in the text of a written destination
\* file: the label lines of the program, its procedures, calls, if and for
\* statements and of the runtime procedures have pairwise different texts.
C28_LabelsAreDistinct ==
    dest_file.exists =>
        LET labels == SelectSeq(dest_file.text, IsLabelDefinition)
        IN  \A i, j \in 1..Len(labels) :
                i # j => LabelLineOf(labels[i]) # LabelLineOf(labels[j])

\* CodeGenerator._reg_size, the R_SIZE of the emitted register array, and
\* CodeGenerator._HP, the last of the three reserved registers
_reg_size == 2048
_HP == 3

\* The register indices a generated line holds: the numbers its format
\* prints between "R[" and "]"
RegisterIndices(l) ==
    IF l.fmt \in {"R[%d] = R[%d] %s R[%d];", "R[%d] = R[%d] + R[%d];"}
    THEN {l.a, l.b, l.c}
    ELSE IF l.fmt \in {"MM[R[%d]] = R[%d];", "R[%d] = MM[R[%d]];", "R[%d] = ~R[%d];",
                       "R[%d] = R[FP] + 1 + R[%d];", "R[%d] = R[FP] - R[%d];"}
    THEN {l.a, l.b}
    ELSE IF l.fmt \in {"R[%d] = %d;", "R[%d] = %s;", "R[%d] = -%s;",
                       "MM[R[SP]] = R[%d];",
                       "R_FLOAT_1 = R[%d];", "R_FLOAT_2 = R[%d];",
                       "if (!R[%d]) goto else_%d;", "if (!R[%d]) goto endloop_%d;",
                       "memcpy(&R[%d], &R_FLOAT_1, sizeof(float));",
                       "memcpy(&R_FLOAT_1, &R[%d], sizeof(float));",
                       "memcpy(&R_FLOAT_2, &R[%d], sizeof(float));"}
    THEN {l.a}
    ELSE {}

NegationLines == {i \in 1..Len(code) : code[i].fmt = "R[%d] = ~R[%d];"}
LogicalLines ==
    {i \in 1..Len(code) : code[i].fmt = "R[%d] = R[%d] %s R[%d];" /\ code[i].s \in {"&", "|"}}

\* C30: the code of an expression that begins with not and was parsed
\* without an error holds exactly one negation, and it negates the first
\* operand: it stands before every & and | operation of the expression.
C30_NotNegatesOnce ==
    (phase = "done" /\ Len(toks) > 0 /\ toks[1] = Kw("not") /\ parse_exc = NoExc) =>
        /\ Cardinality(NegationLines) = 1
        /\ \A i \in NegationLines : \A j \in LogicalLines : i < j
=============================================================================
